---- MODULE Spec2Model ----
(***************************************************************************)
(* State-machine model of the MoneyRite release-safety core:               *)
(*   moneyrite/resilience.py   CircuitBreaker, RateLimiter                 *)
(*   moneyrite/rate_engine.py  RateEngine                                  *)
(*   moneyrite/rate_updater.py RateUpdateService                           *)
(*   moneyrite/feature_flags.py FeatureFlagManager                         *)
(* All components coordinate through django.core.cache, modelled by the    *)
(* variable cache: one entry per key, each with an absolute expiry time.   *)
(***************************************************************************)
EXTENDS Integers, Sequences, FiniteSets, TLC

VARIABLES
    now,        \* time.time(), whole seconds
    cache,      \* django.core.cache: key -> entry
    ticks,      \* how many times the clock has been advanced
    lastCall,   \* observation of the most recent CircuitBreaker.call at this instant
    run,        \* observation: the current run of consecutive failing calls
    reopened,   \* observation: when a HALF_OPEN failure last re-opened the breaker
    history     \* observation: per identifier, the is_allowed calls of the last
                \* window_seconds seconds

cbVars == <<lastCall, run, reopened>>
rlVars == <<history>>

VARIABLES
    files,           \* the rates directory: current.json and rates-<version>.json
    current_config,  \* per RateEngine instance, self._current_config
    pc,              \* per RateUpdateService, where its update_rates call stands
    job,             \* per RateUpdateService, the arguments of that call
    result,          \* per RateUpdateService, what that call returns; once
                     \* returned it is kept until the next step
    started,         \* how many update_rates calls have been made
    lastRead,        \* observation: the get_current_rates call just made, if
                     \* the last step was one
    published        \* observation: the last configuration update_rates published,
                     \* and whether a whole CACHE_TIMEOUT has passed since

ratesVars == <<files, current_config, pc, job, result, started, lastRead, published>>

\* FeatureFlagManager
VARIABLES
    flags,           \* per manager, self.flags: flag name -> FeatureFlag
    flagOps,         \* how many update_flag and emergency_disable calls were made
    emergency        \* observation: per manager, the flags emergency_disable
                     \* disabled on it and update_flag has not changed since,
                     \* with what is_enabled has returned for them since

ffVars == <<flags, flagOps, emergency>>

\* RateEngine called directly (the update_tax_rates command)
VARIABLES
    save,            \* the save_configuration call on the global rate_engine:
                     \* its position, arguments, what it returned, and the
                     \* files as they were when it was called
    held             \* a RateConfiguration object a caller holds after
                     \* save_configuration, and the one field changed since

engVars == <<save, held>>

VARIABLES
    asked,      \* the last is_enabled call: its arguments, the flag it found, its result
    first,      \* an earlier is_enabled call, kept for comparison
    promotion,  \* the last promote_canary call of the command and how it ended
    mutation    \* the last change of a flag by the command process

VARIABLES
    wrapped,    \* the last call of a function wrapped by shadow_mode
    calc,       \* the last calls of the calculation entry points of utils.py
    slo,        \* SLOMonitor: the current values of the SLOs and the last should_alert call
    race        \* concurrent CircuitBreaker.call executions, one step per cache access

ffObs == <<asked, first, promotion, mutation>>
moreVars == <<wrapped, calc, slo, race>>

evalVars == <<ffObs, moreVars>>

vars == <<now, ticks, cache, cbVars, rlVars, ratesVars, ffVars, engVars, evalVars>>

(***************************************************************************)
(* Bounds of the exploration                                               *)
(***************************************************************************)
MaxTicks == 5
MaxRaceCalls == 6
MaxRaceTicks == 1
MaxRatesTicks == 1
MaxUpdates == 2
MaxFFTicks == 1
MaxFlagOps == 2
MaxCanaryResults == 1
MaxSaves == 2

(***************************************************************************)
(* django.core.cache                                                       *)
(***************************************************************************)
\* A key is a pair: the prefix the component builds and the part that varies.
KEY_STATE == <<"circuit_breaker:external_api", "state">>
KEY_FAILURES == <<"circuit_breaker:external_api", "failures">>
KEY_SUCCESSES == <<"circuit_breaker:external_api", "successes">>

CBKeys == {KEY_STATE, KEY_FAILURES, KEY_SUCCESSES}

Identifiers == {"1", "anonymous"}

RLKey(identifier) == <<"rate_limit:calculations", identifier>>

RLKeys == {RLKey(i) : i \in Identifiers}

KEY_CURRENT == <<"moneyrite", "current_rates">>
KEY_LOCK == <<"moneyrite", "rate_update_lock">>

RatesKeys == {KEY_CURRENT, KEY_LOCK}

\* FeatureFlagManager: the users and flag names of the calls made.
Users == {4, 113}
FlagInputs == {"new_tax_engine", "shadow_calculation_comparison", "no_such_flag"}
\* and of the administrative calls
FlagTargets == {"new_tax_engine", "no_such_flag"}

KEY_FLAGS == <<"feature_flag", "all">>
CanaryKey(flag_name) == <<"canary_success", flag_name>>
ShadowKey(flag_name, user) == <<"shadow:" \o flag_name, ToString(user)>>

\* The flags asked about under the percentage strategy
PctFlags == {"new_tax_engine", "enhanced_error_handling"}

FFKeys ==
    {KEY_FLAGS} \cup {CanaryKey(f) : f \in FlagInputs \cup PctFlags}
        \cup {ShadowKey(f, u) : f \in FlagInputs \cup PctFlags, u \in Users}

CacheKeys == CBKeys \cup RLKeys \cup RatesKeys \cup FFKeys

NoEntry == [present |-> FALSE]

Live(c, k) == c[k].present /\ now < c[k].expires

CacheGet(c, k, default) == IF Live(c, k) THEN c[k].value ELSE default

CacheSet(c, k, v, ttl) ==
    [c EXCEPT ![k] = [present |-> TRUE, value |-> v, expires |-> now + ttl]]

CacheDelete(c, k) == [c EXCEPT ![k] = NoEntry]

\* Entries whose expiry time has passed at time t are gone.
Expire(c, t) ==
    [k \in DOMAIN c |-> IF c[k].present /\ c[k].expires <= t THEN NoEntry ELSE c[k]]

(***************************************************************************)
(* RateConfiguration                                                       *)
(* Decimal amounts are whole cents, Decimal rates are thousandths.         *)
(***************************************************************************)
\* Python's None where the value is otherwise a number.
None == -1

TaxBracket(min_income, max_income, rate) ==
    [min_income |-> min_income, max_income |-> max_income, rate |-> rate]

TaxRebate(name, amount, age_category) ==
    [name |-> name, amount |-> amount, age_category |-> age_category]

NoChecksum == [present |-> FALSE]

\* RateConfiguration.to_dict, without the checksum entry: a bracket's
\* max_income is written only if it is truthy (neither None nor zero).
to_dict_body(config) ==
    [version |-> config.version,
     effective_date |-> config.effective_date,
     tax_year |-> config.tax_year,
     description |-> config.description,
     source_urls |-> config.source_urls,
     tax_brackets |->
         [n \in DOMAIN config.tax_brackets |->
             [config.tax_brackets[n] EXCEPT
                 !.max_income = IF @ = None \/ @ = 0 THEN None ELSE @]],
     tax_rebates |-> config.tax_rebates,
     uif_rate |-> config.uif_rate,
     uif_monthly_cap |-> config.uif_monthly_cap,
     uif_annual_cap |-> config.uif_annual_cap,
     medical_credit_main |-> config.medical_credit_main,
     medical_credit_first_dependent |-> config.medical_credit_first_dependent,
     medical_credit_additional_dependent |-> config.medical_credit_additional_dependent]

\* SHA-256 of the canonical JSON of to_dict() without 'checksum'.  The digest
\* is modelled by the text it is taken of: equal digests, equal texts.
calculate_checksum(config) == [present |-> TRUE, sha256 |-> to_dict_body(config)]

to_dict(config) ==
    [wellformed |-> TRUE, body |-> to_dict_body(config), checksum |-> config.checksum]

\* A dictionary that lacks keys _deserialize_config reads.
MalformedDict == [wellformed |-> FALSE]

\* A falsy cache.get result.
NoDict == [wellformed |-> FALSE, falsy |-> TRUE]

Truthy(d) == d # NoDict

CanDeserialize(data) == data.wellformed

\* RateEngine._deserialize_config for data it does not raise on.
deserialize_config(data) ==
    [version |-> data.body.version,
     effective_date |-> data.body.effective_date,
     tax_year |-> data.body.tax_year,
     description |-> data.body.description,
     source_urls |-> data.body.source_urls,
     tax_brackets |-> data.body.tax_brackets,
     tax_rebates |-> data.body.tax_rebates,
     uif_rate |-> data.body.uif_rate,
     uif_monthly_cap |-> data.body.uif_monthly_cap,
     uif_annual_cap |-> data.body.uif_annual_cap,
     medical_credit_main |-> data.body.medical_credit_main,
     medical_credit_first_dependent |-> data.body.medical_credit_first_dependent,
     medical_credit_additional_dependent |-> data.body.medical_credit_additional_dependent,
     checksum |-> data.checksum]

WithChecksum(config) == [config EXCEPT !.checksum = calculate_checksum(config)]

\* RateEngine._get_default_2025_config
default_2025_config ==
    WithChecksum(
        [version |-> "2025.1.0",
         effective_date |-> "2025-03-01",
         tax_year |-> "2025/2026",
         description |-> "SARS Tax Tables 2025/2026 - Hardcoded Fallback",
         source_urls |-> <<"https://www.sars.gov.za/tax-rates/income-tax/rates-of-tax-for-individuals/",
                           "https://www.sars.gov.za/tax-rates/medical-tax-credit-rates/">>,
         tax_brackets |-> <<TaxBracket(0, 23710000, 180),
                            TaxBracket(23710000, 37050000, 260),
                            TaxBracket(37050000, 51280000, 310),
                            TaxBracket(51280000, 67300000, 360),
                            TaxBracket(67300000, 85790000, 390),
                            TaxBracket(85790000, 181700000, 410),
                            TaxBracket(181700000, None, 450)>>,
         tax_rebates |-> <<TaxRebate("Primary Rebate", 1723500, "under_65"),
                           TaxRebate("Secondary Rebate", 330000, "65_to_74"),
                           TaxRebate("Tertiary Rebate", 147000, "75_plus")>>,
         uif_rate |-> 10,
         uif_monthly_cap |-> 17712,
         uif_annual_cap |-> 1771200,
         medical_credit_main |-> 36400,
         medical_credit_first_dependent |-> 36400,
         medical_credit_additional_dependent |-> 24600,
         checksum |-> NoChecksum])

\* RateEngine.verify_integrity
verify_integrity(config) == calculate_checksum(config) = config.checksum

(***************************************************************************)
(* RateUpdateService._validate_configuration                               *)
(***************************************************************************)
\* float('inf'): above every income of the model.
Infinity == 1000000000

MAX_TAX_RATE == 500
MAX_UIF_RATE == 50

RECURSIVE brackets_error(_, _)
\* The first loop: the error it returns, or "" when it runs to its end.
brackets_error(brackets, prev_max) ==
    IF brackets = <<>> THEN ""
    ELSE LET bracket == Head(brackets)
             has_max == bracket.max_income # None /\ bracket.max_income # 0
         IN  IF bracket.min_income < prev_max
             THEN "Tax brackets are not in ascending order"
             ELSE IF has_max /\ bracket.max_income <= bracket.min_income
             THEN "Invalid bracket range"
             ELSE brackets_error(Tail(brackets),
                                 IF has_max THEN bracket.max_income ELSE Infinity)

validate_configuration(config) ==
    LET e == brackets_error(config.tax_brackets, 0)
    IN  IF e # "" THEN [valid |-> FALSE, error |-> e]
        ELSE IF \E n \in DOMAIN config.tax_brackets :
                    config.tax_brackets[n].rate < 0
                        \/ config.tax_brackets[n].rate > MAX_TAX_RATE
        THEN [valid |-> FALSE, error |-> "Unreasonable tax rate"]
        ELSE IF \E n \in DOMAIN config.tax_rebates : config.tax_rebates[n].amount < 0
        THEN [valid |-> FALSE, error |-> "Negative rebate amount"]
        ELSE IF config.uif_rate < 0 \/ config.uif_rate > MAX_UIF_RATE
        THEN [valid |-> FALSE, error |-> "Unreasonable UIF rate"]
        ELSE [valid |-> TRUE, error |-> ""]

(***************************************************************************)
(* Configuration data handed to update_rates                               *)
(***************************************************************************)
Config2026 ==
    WithChecksum([default_2025_config EXCEPT
        !.version = "2026.1.0", !.tax_year = "2026/2027",
        !.tax_rebates[1].amount = 1800000])

Config2027 ==
    WithChecksum([default_2025_config EXCEPT
        !.version = "2027.1.0", !.tax_year = "2027/2028", !.uif_rate = 20])

\* Well-formed, checksum right, rules broken: the second bracket starts
\* below the end of the first.
DataOverlap ==
    to_dict(WithChecksum([default_2025_config EXCEPT
        !.version = "2026.9.1", !.tax_brackets[2].min_income = 20000000]))

\* Well-formed and within the rules, but altered after the checksum was taken.
DataTampered ==
    to_dict([Config2026 EXCEPT !.version = "2026.9.3", !.uif_rate = 5])

ValidData == {to_dict(Config2026), to_dict(Config2027)}

InvalidData == {MalformedDict, DataTampered, DataOverlap}

ConfigData == ValidData \cup InvalidData

\* What update_rates checks before it may publish.
Acceptable(data) ==
    /\ CanDeserialize(data)
    /\ verify_integrity(deserialize_config(data))
    /\ validate_configuration(deserialize_config(data)).valid

(***************************************************************************)
(* RateEngine                                                              *)
(***************************************************************************)
CACHE_TIMEOUT == 3600
LOCK_TTL == 300

\* One RateUpdateService per process, each with its own RateEngine, and the
\* global rate_engine the calculators read.
Updaters == {"service_1", "service_2"}
Engines == Updaters \cup {"rate_engine"}

Versions == {d.body.version : d \in {x \in ConfigData : x.wellformed}}

\* A file of the rates directory.
NoFile == [exists |-> FALSE]
FileOf(text) == [exists |-> TRUE, json |-> TRUE, text |-> text]
\* A file cut short: json.load raises on it.
BrokenFile == [exists |-> TRUE, json |-> FALSE]

\* self._current_config
NoConfig == [loaded |-> FALSE]
Loaded(config) == [loaded |-> TRUE, config |-> config]

\* RateEngine._load_current_config: every exception is caught.
load_current_config(current_file) ==
    IF ~current_file.exists THEN NoConfig
    ELSE IF ~current_file.json THEN NoConfig
    ELSE IF ~CanDeserialize(current_file.text) THEN NoConfig
    ELSE Loaded(deserialize_config(current_file.text))

\* RateEngine.get_current_rates on an engine whose _current_config is memo:
\* whether it raises, and the memo and cache it leaves; it returns memo.config.
get_current_rates(memo, c, current_file) ==
    IF memo.loaded
    THEN [raised |-> FALSE, memo |-> memo, cache |-> c]
    ELSE LET cached_config == CacheGet(c, KEY_CURRENT, NoDict)
         IN  IF Truthy(cached_config)
             THEN IF CanDeserialize(cached_config)
                  THEN [raised |-> FALSE,
                        memo |-> Loaded(deserialize_config(cached_config)),
                        cache |-> c]
                  ELSE [raised |-> TRUE, memo |-> memo, cache |-> c]
             ELSE LET from_file == load_current_config(current_file)
                  IN  IF from_file.loaded
                      THEN [raised |-> FALSE,
                            memo |-> from_file,
                            cache |-> CacheSet(c, KEY_CURRENT, to_dict(from_file.config),
                                               CACHE_TIMEOUT)]
                      ELSE [raised |-> FALSE,
                            memo |-> Loaded(default_2025_config),
                            cache |-> c]

(***************************************************************************)
(* CircuitBreaker (the external_api breaker's configuration)               *)
(***************************************************************************)
CLOSED == "closed"
OPEN == "open"
HALF_OPEN == "half_open"

failure_threshold == 3
recovery_timeout == 30
success_threshold == 2

STATE_TTL == 3600
FAILURES_TTL == 3600
SUCCESSES_TTL == 300

NoStateData == [present |-> FALSE]

get_state(c) ==
    LET state_data == CacheGet(c, KEY_STATE, NoStateData)
    IN  IF ~state_data.present THEN CLOSED ELSE state_data.state

set_state(c, state, err) ==
    CacheSet(c, KEY_STATE,
             [present |-> TRUE, state |-> state, timestamp |-> now, last_error |-> err],
             STATE_TTL)

get_failure_count(c) == CacheGet(c, KEY_FAILURES, 0)

increment_failures(c) == CacheSet(c, KEY_FAILURES, get_failure_count(c) + 1, FAILURES_TTL)

reset_failures(c) == CacheDelete(c, KEY_FAILURES)

get_success_count(c) == CacheGet(c, KEY_SUCCESSES, 0)

increment_successes(c) == CacheSet(c, KEY_SUCCESSES, get_success_count(c) + 1, SUCCESSES_TTL)

reset_successes(c) == CacheDelete(c, KEY_SUCCESSES)

\* state_data.get('timestamp', 0) of call
last_failure(c) ==
    LET state_data == CacheGet(c, KEY_STATE, NoStateData)
    IN  IF state_data.present THEN state_data.timestamp ELSE 0

\* Variant: the comparison of the recovery check reversed.
recovery_elapsed_reversed(c) == now - last_failure(c) < recovery_timeout

recovery_elapsed(c) == now - last_failure(c) > recovery_timeout

\* Variant: a success on a CLOSED breaker leaves the failure count.
handle_success_counts_all(c) ==
    LET state == get_state(c)
    IN  IF state = HALF_OPEN
        THEN LET c1 == increment_successes(c)
             IN  IF get_success_count(c1) >= success_threshold
                 THEN reset_successes(reset_failures(set_state(c1, CLOSED, "none")))
                 ELSE c1
        ELSE c

\* Variant: closing the circuit forgets to reset the failure count.
handle_success_keeps_failures(c) ==
    LET state == get_state(c)
    IN  IF state = HALF_OPEN
        THEN LET c1 == increment_successes(c)
             IN  IF get_success_count(c1) >= success_threshold
                 THEN reset_successes(set_state(c1, CLOSED, "none"))
                 ELSE c1
        ELSE IF state = CLOSED
        THEN reset_failures(c)
        ELSE c

handle_success(c) ==
    LET state == get_state(c)
    IN  IF state = HALF_OPEN
        THEN LET c1 == increment_successes(c)
             IN  IF get_success_count(c1) >= success_threshold
                 THEN reset_successes(reset_failures(set_state(c1, CLOSED, "none")))
                 ELSE c1
        ELSE IF state = CLOSED
        THEN reset_failures(c)
        ELSE c

\* Variant: the threshold test is strict.
handle_failure_strict(c) ==
    LET state == get_state(c)
    IN  IF state = HALF_OPEN
        THEN reset_successes(set_state(c, OPEN, "error"))
        ELSE IF state = CLOSED
        THEN LET c1 == increment_failures(c)
             IN  IF get_failure_count(c1) > failure_threshold
                 THEN set_state(c1, OPEN, "error")
                 ELSE c1
        ELSE c

\* Variant: a HALF_OPEN failure re-opens without resetting the success count.
handle_failure_keeps_successes(c) ==
    LET state == get_state(c)
    IN  IF state = HALF_OPEN
        THEN set_state(c, OPEN, "error")
        ELSE IF state = CLOSED
        THEN LET c1 == increment_failures(c)
             IN  IF get_failure_count(c1) >= failure_threshold
                 THEN set_state(c1, OPEN, "error")
                 ELSE c1
        ELSE c

handle_failure(c) ==
    LET state == get_state(c)
    IN  IF state = HALF_OPEN
        THEN reset_successes(set_state(c, OPEN, "error"))
        ELSE IF state = CLOSED
        THEN LET c1 == increment_failures(c)
             IN  IF get_failure_count(c1) >= failure_threshold
                 THEN set_state(c1, OPEN, "error")
                 ELSE c1
        ELSE c

\* The cache as the wrapped function finds it: an OPEN breaker whose recovery
\* timeout has passed has moved to HALF_OPEN.
admit(c) ==
    IF get_state(c) = OPEN /\ recovery_elapsed(c)
    THEN reset_successes(set_state(c, HALF_OPEN, "none"))
    ELSE c

\* CircuitBreaker.call(func): ok says whether func returns or raises.
\* The result names the outcome and the cache the call leaves behind.
call(c, ok) ==
    IF get_state(c) = OPEN /\ ~recovery_elapsed(c)
    THEN [outcome |-> "CircuitBreakerOpenError", invoked |-> FALSE, cache |-> c]
    ELSE IF ok
    THEN [outcome |-> "returned", invoked |-> TRUE, cache |-> handle_success(admit(c))]
    ELSE [outcome |-> "raised", invoked |-> TRUE, cache |-> handle_failure(admit(c))]

NoCall == [outcome |-> "none"]

NoRun == [n |-> 0, fresh |-> 0, at |-> -1, streak |-> 0]

\* The run of consecutive failing calls that began on a CLOSED breaker with
\* failure count 0: n counts them all, fresh only those that came less than
\* FAILURES_TTL after the one before.  streak counts, up to failure_threshold,
\* the failing calls made since the last call that did not fail.
RunAfter(c, r) ==
    LET starts == get_state(c) = CLOSED /\ get_failure_count(c) = 0
        n0 == IF r.n >= failure_threshold THEN 0 ELSE r.n
        f0 == IF r.fresh >= failure_threshold \/ (r.at >= 0 /\ now - r.at >= FAILURES_TTL)
              THEN 0 ELSE r.fresh
    IN  [n |-> IF n0 > 0 THEN n0 + 1 ELSE IF starts THEN 1 ELSE 0,
         fresh |-> IF f0 > 0 THEN f0 + 1 ELSE IF starts THEN 1 ELSE 0,
         at |-> now,
         streak |-> IF r.streak < failure_threshold THEN r.streak + 1 ELSE r.streak]

CBCall(ok) ==
    LET r == call(cache, ok)
    IN  /\ cache' = r.cache
        /\ lastCall' = [outcome |-> r.outcome, invoked |-> r.invoked,
                        pre |-> cache, mid |-> admit(cache), reopened |-> reopened]
        /\ run' = IF r.outcome = "raised" THEN RunAfter(cache, run) ELSE NoRun
        /\ reopened' = IF r.outcome = "raised" /\ get_state(admit(cache)) = HALF_OPEN
                       THEN now
                       ELSE IF r.invoked THEN -1 ELSE reopened
        /\ UNCHANGED <<now, ticks, rlVars, ratesVars, ffVars, engVars, evalVars>>

CBTickSteps == {1, recovery_timeout, SUCCESSES_TTL, STATE_TTL}

CBTick(d) ==
    /\ ticks < MaxTicks
    /\ ticks' = ticks + 1
    /\ now' = now + d
    /\ cache' = Expire(cache, now + d)
    /\ lastCall' = NoCall
    /\ UNCHANGED <<run, reopened, rlVars, ratesVars, ffVars, engVars, evalVars>>

(***************************************************************************)
(* The initial state                                                       *)
(***************************************************************************)
\* What an update_rates call has to return so far.
Pending == [done |-> FALSE, success |-> FALSE, error |-> "", data |-> MalformedDict]
Failure(error) == [Pending EXCEPT !.error = error]
Success == [Pending EXCEPT !.success = TRUE]
NoJob == [data |-> MalformedDict, verify_only |-> TRUE]
NoRead == [outcome |-> "none"]

\* Results already returned are forgotten.
Forget(res) == [u \in DOMAIN res |-> IF res[u].done THEN Pending ELSE res[u]]

\* No save_configuration call made yet.
NoSave ==
    [pc |-> "idle", calls |-> 0, returned |-> "none", make_current |-> FALSE,
     config |-> default_2025_config,
     before |-> [current |-> NoFile, versions |-> [v \in Versions |-> NoFile]]]
NoHeld == [saved |-> FALSE]
NoAsk == [called |-> FALSE]
NoPromotion == [called |-> FALSE]
NoMutation == [made |-> FALSE]
NoWrapped == [called |-> FALSE]
\* SLOMonitor.__init__: target, current and error_budget of each objective;
\* ratios in units of 0.00001, the latency in units of 0.00001 s.  A
\* measurement carries the sign of the rounding error that the binary
\* floating-point quotient of check_slos makes on it.
SLONames == {"availability", "latency_p95", "accuracy"}
Measured(units, rounding) == [units |-> units, rounding |-> rounding]
slo_target == [availability |-> 99900, latency_p95 |-> 30000, accuracy |-> 99990]
slo_error_budget == [availability |-> 100, latency_p95 |-> 10000, accuracy |-> 10]
slo_current ==
    [availability |-> Measured(100000, 0), latency_p95 |-> Measured(0, 0),
     accuracy |-> Measured(100000, 0)]
NoAlertAsked == [called |-> FALSE]
NoSLO == [current |-> slo_current, asked |-> NoAlertAsked]
\* The processes that call one breaker at the same time: where each stands
\* in call, whether its function returns, the state and the count it last
\* read; how many calls were begun; and the state entry just written, with
\* the state it replaced and the state its writer had read.
Workers == {"w1", "w2"}
\* An is_allowed call of a process between its cache.get and its cache.set:
\* the identifier, current_time and the buckets it is about to store
NoLimiterCall == [pc |-> "idle"]
NoTransition == [made |-> FALSE]
NoRace ==
    [pc |-> [w \in Workers |-> "idle"], ok |-> [w \in Workers |-> TRUE],
     state |-> [w \in Workers |-> "closed"], count |-> [w \in Workers |-> 0],
     started |-> 0, transition |-> NoTransition,
     limiter |-> [w \in Workers |-> NoLimiterCall]]

Managers == {"web", "command"}
\* self.flags = {}
NoFlags == [f \in {} |-> FALSE]

Init ==
    /\ now = 0
    /\ ticks = 0
    /\ cache = [k \in CacheKeys |-> NoEntry]
    /\ lastCall = NoCall
    /\ run = NoRun
    /\ reopened = -1
    /\ history = [i \in Identifiers |-> <<>>]
    /\ files = [current |-> NoFile, versions |-> [v \in Versions |-> NoFile]]
    /\ current_config = [e \in Engines |-> NoConfig]
    /\ pc = [u \in Updaters |-> "idle"]
    /\ job = [u \in Updaters |-> NoJob]
    /\ result = [u \in Updaters |-> Pending]
    /\ started = 0
    /\ lastRead = NoRead
    /\ published = [version |-> "", aged |-> FALSE]
    /\ save = NoSave
    /\ held = NoHeld
    /\ asked = NoAsk
    /\ first = NoAsk
    /\ promotion = NoPromotion
    /\ mutation = NoMutation
    /\ wrapped = NoWrapped
    /\ calc = <<>>
    /\ slo = NoSLO
    /\ race = NoRace
    /\ flags = [m \in Managers |-> NoFlags]
    /\ flagOps = 0
    /\ emergency = [m \in Managers |-> {}]

NextCB ==
    \/ \E ok \in BOOLEAN : CBCall(ok)
    \/ \E d \in CBTickSteps : CBTick(d)

SpecCB == Init /\ [][NextCB]_vars

(***************************************************************************)
(* RateLimiter                                                             *)
(***************************************************************************)
max_requests == 2
window_seconds == 3
RL_TTL_MARGIN == 60

RECURSIVE SumCounts(_)
\* sum(cleaned_requests.values())
SumCounts(f) ==
    IF DOMAIN f = {} THEN 0
    ELSE LET t == CHOOSE x \in DOMAIN f : TRUE
         IN  f[t] + SumCounts([x \in DOMAIN f \ {t} |-> f[x]])

EmptyDict == [t \in {} |-> 0]

\* The buckets of request_data newer than window_start.  A bucket's key is
\* str(current_time) and is read back with int(): whole seconds either way.
cleaned_requests(request_data) ==
    LET window_start == now - window_seconds
    IN  [t \in {x \in DOMAIN request_data : x > window_start} |-> request_data[t]]

\* Variant: a refused call stores the cleaned buckets.
is_allowed_saves_on_reject(c, identifier) ==
    LET cleaned == cleaned_requests(CacheGet(c, RLKey(identifier), EmptyDict))
        total_requests == SumCounts(cleaned)
    IN  IF total_requests >= max_requests
        THEN [allowed |-> FALSE,
              cache |-> CacheSet(c, RLKey(identifier), cleaned,
                                 window_seconds + RL_TTL_MARGIN)]
        ELSE LET count == IF now \in DOMAIN cleaned THEN cleaned[now] ELSE 0
                 added == [t \in DOMAIN cleaned \cup {now} |->
                              IF t = now THEN count + 1 ELSE cleaned[t]]
             IN  [allowed |-> TRUE,
                  cache |-> CacheSet(c, RLKey(identifier), added,
                                     window_seconds + RL_TTL_MARGIN)]

\* Variant: the limit test is strict.
is_allowed_strict(c, identifier) ==
    LET cleaned == cleaned_requests(CacheGet(c, RLKey(identifier), EmptyDict))
        total_requests == SumCounts(cleaned)
    IN  IF total_requests > max_requests
        THEN [allowed |-> FALSE, cache |-> c]
        ELSE LET count == IF now \in DOMAIN cleaned THEN cleaned[now] ELSE 0
                 added == [t \in DOMAIN cleaned \cup {now} |->
                              IF t = now THEN count + 1 ELSE cleaned[t]]
             IN  [allowed |-> TRUE,
                  cache |-> CacheSet(c, RLKey(identifier), added,
                                     window_seconds + RL_TTL_MARGIN)]

\* RateLimiter.is_allowed(identifier): the answer and the cache it leaves.
is_allowed(c, identifier) ==
    LET cleaned == cleaned_requests(CacheGet(c, RLKey(identifier), EmptyDict))
        total_requests == SumCounts(cleaned)
    IN  IF total_requests >= max_requests
        THEN [allowed |-> FALSE, cache |-> c]
        ELSE LET count == IF now \in DOMAIN cleaned THEN cleaned[now] ELSE 0
                 added == [t \in DOMAIN cleaned \cup {now} |->
                              IF t = now THEN count + 1 ELSE cleaned[t]]
             IN  [allowed |-> TRUE,
                  cache |-> CacheSet(c, RLKey(identifier), added,
                                     window_seconds + RL_TTL_MARGIN)]

\* At most this many calls per identifier are explored in one window.
MaxCalls == max_requests + 1

RLCall(identifier) ==
    LET r == is_allowed(cache, identifier)
    IN  /\ Len(history[identifier]) < MaxCalls
        /\ cache' = r.cache
        /\ history' = [history EXCEPT ![identifier] =
                           Append(@, [at |-> now, allowed |-> r.allowed])]
        /\ UNCHANGED <<now, ticks, cbVars, ratesVars, ffVars, engVars, evalVars>>

RLTickSteps == {1, window_seconds, window_seconds + RL_TTL_MARGIN}

RLTick(d) ==
    /\ ticks < MaxTicks
    /\ ticks' = ticks + 1
    /\ now' = now + d
    /\ cache' = Expire(cache, now + d)
    /\ history' = [i \in Identifiers |->
                       SelectSeq(history[i], LAMBDA e : e.at > now + d - window_seconds)]
    /\ UNCHANGED <<cbVars, ratesVars, ffVars, engVars, evalVars>>

NextRL ==
    \/ \E i \in Identifiers : RLCall(i)
    \/ \E d \in RLTickSteps : RLTick(d)

SpecRL == Init /\ [][NextRL]_vars

(***************************************************************************)
(* RateEngine and RateUpdateService: operations                            *)
(***************************************************************************)
\* True while some update_rates call has written a file and not yet returned.
Publishing == \E u \in Updaters : pc[u] \in {"save_current", "save_clear", "release"}

\* get_current_rates called on engine e from outside update_rates.
GetCurrentRates(e) ==
    LET r == get_current_rates(current_config[e], cache, files.current)
    IN  /\ cache' = r.cache
        /\ current_config' = [current_config EXCEPT ![e] = r.memo]
        /\ lastRead' = [outcome |-> IF r.raised THEN "raised" ELSE "returned",
                        engine |-> e,
                        version |-> IF r.raised THEN "" ELSE r.memo.config.version,
                        published |-> published.version,
                        aged |-> published.aged,
                        stored |-> LET f == load_current_config(files.current)
                                   IN  IF f.loaded THEN f.config.version ELSE "",
                        quiet |-> ~Publishing]
        /\ result' = Forget(result)
        /\ UNCHANGED <<now, ticks, files, pc, job, started, published, cbVars, rlVars, ffVars, engVars, evalVars>>

(***************************************************************************)
(* RateUpdateService.update_rates, one step per access to shared state     *)
(***************************************************************************)
\* Variant: the integrity check left out.
check_new_config_unverified(data) ==
    IF ~CanDeserialize(data)
    THEN "Invalid configuration format"
    ELSE IF ~validate_configuration(deserialize_config(data)).valid
    THEN "Configuration validation failed"
    ELSE ""

\* The checks between taking the lock and publishing: the error update_rates
\* returns, or "" when the configuration passes.
check_new_config(data) ==
    IF ~CanDeserialize(data)
    THEN "Invalid configuration format"
    ELSE IF ~verify_integrity(deserialize_config(data))
    THEN "Configuration integrity check failed"
    ELSE IF ~validate_configuration(deserialize_config(data)).valid
    THEN "Configuration validation failed"
    ELSE ""

UpdateRates(u, data, verify_only) ==
    /\ pc[u] = "idle"
    /\ pc' = [pc EXCEPT ![u] = "check_lock"]
    /\ job' = [job EXCEPT ![u] = [data |-> data, verify_only |-> verify_only]]
    /\ started < MaxUpdates
    /\ started' = started + 1
    /\ result' = [Forget(result) EXCEPT ![u] = Pending]
    /\ lastRead' = NoRead
    /\ UNCHANGED <<now, ticks, cache, files, current_config, published,
                   cbVars, rlVars, ffVars, engVars, evalVars>>

\* Variant: the call that finds the lock held deletes it on its way out.
CheckLock_releases(u) ==
    /\ pc[u] = "check_lock"
    /\ IF CacheGet(cache, KEY_LOCK, FALSE)
       THEN /\ pc' = [pc EXCEPT ![u] = "idle"]
            /\ result' = [Forget(result) EXCEPT ![u] =
                             [Failure("Rate update already in progress") EXCEPT
                                 !.done = TRUE, !.data = job[u].data]]
            /\ job' = [job EXCEPT ![u] = NoJob]
            /\ cache' = CacheDelete(cache, KEY_LOCK)
       ELSE /\ pc' = [pc EXCEPT ![u] = "set_lock"]
            /\ result' = Forget(result)
            /\ UNCHANGED <<job, cache>>
    /\ lastRead' = NoRead
    /\ UNCHANGED <<now, ticks, files, current_config, started, published,
                   cbVars, rlVars, ffVars, engVars, evalVars>>

\* if cache.get(self.update_lock_key): return
CheckLock(u) ==
    /\ pc[u] = "check_lock"
    /\ IF CacheGet(cache, KEY_LOCK, FALSE)
       THEN /\ pc' = [pc EXCEPT ![u] = "idle"]
            /\ result' = [Forget(result) EXCEPT ![u] =
                             [Failure("Rate update already in progress") EXCEPT
                                 !.done = TRUE, !.data = job[u].data]]
            /\ job' = [job EXCEPT ![u] = NoJob]
       ELSE /\ pc' = [pc EXCEPT ![u] = "set_lock"]
            /\ result' = Forget(result)
            /\ UNCHANGED job
    /\ lastRead' = NoRead
    /\ UNCHANGED <<now, ticks, cache, files, current_config, started, published,
                   cbVars, rlVars, ffVars, engVars, evalVars>>

\* cache.set(self.update_lock_key, True, 300)
SetLock(u) ==
    /\ pc[u] = "set_lock"
    /\ cache' = CacheSet(cache, KEY_LOCK, TRUE, LOCK_TTL)
    /\ pc' = [pc EXCEPT ![u] = "validate"]
    /\ result' = Forget(result)
    /\ lastRead' = NoRead
    /\ UNCHANGED <<now, ticks, files, current_config, job, started, published,
                   cbVars, rlVars, ffVars, engVars, evalVars>>

\* Variant: verify_only is not looked at.
Validate_ignores_verify_only(u) ==
    LET error == check_new_config(job[u].data)
    IN  /\ pc[u] = "validate"
        /\ IF error # ""
           THEN /\ result' = [Forget(result) EXCEPT ![u] = Failure(error)]
                /\ pc' = [pc EXCEPT ![u] = "release"]
           ELSE /\ pc' = [pc EXCEPT ![u] = "get_current"]
                /\ result' = Forget(result)
        /\ lastRead' = NoRead
        /\ UNCHANGED <<now, ticks, cache, files, current_config, job, started,
                       published, cbVars, rlVars, ffVars, engVars, evalVars>>

\* Deserialize, verify integrity, validate; if verify_only: return success
Validate(u) ==
    LET error == check_new_config(job[u].data)
    IN  /\ pc[u] = "validate"
        /\ IF error # ""
           THEN /\ result' = [Forget(result) EXCEPT ![u] = Failure(error)]
                /\ pc' = [pc EXCEPT ![u] = "release"]
           ELSE IF job[u].verify_only
           THEN /\ result' = [Forget(result) EXCEPT ![u] = Success]
                /\ pc' = [pc EXCEPT ![u] = "release"]
           ELSE /\ pc' = [pc EXCEPT ![u] = "get_current"]
                /\ result' = Forget(result)
        /\ lastRead' = NoRead
        /\ UNCHANGED <<now, ticks, cache, files, current_config, job, started,
                       published, cbVars, rlVars, ffVars, engVars, evalVars>>

\* current_config = self.rate_engine.get_current_rates(); an exception
\* reaches the handler of update_rates.
GetCurrent(u) ==
    LET r == get_current_rates(current_config[u], cache, files.current)
    IN  /\ pc[u] = "get_current"
        /\ cache' = r.cache
        /\ current_config' = [current_config EXCEPT ![u] = r.memo]
        /\ IF r.raised
           THEN /\ result' = [Forget(result) EXCEPT ![u] = Failure("Update failed")]
                /\ pc' = [pc EXCEPT ![u] = "release"]
           ELSE /\ pc' = [pc EXCEPT ![u] = "save_version"]
                /\ result' = Forget(result)
        /\ lastRead' = NoRead
        /\ UNCHANGED <<now, ticks, files, job, started, published, cbVars, rlVars, ffVars, engVars, evalVars>>

\* What open(path, 'w') followed by json.dump can do to a file.
IOOutcomes == {"written", "open_failed", "write_failed"}

WriteFile(old, text, io) ==
    IF io = "written" THEN FileOf(text)
    ELSE IF io = "open_failed" THEN old
    ELSE BrokenFile

\* The text save_configuration writes: to_dict() with the checksum just set.
SavedText(u) == to_dict(WithChecksum(deserialize_config(job[u].data)))

\* save_configuration: the versioned file
SaveVersion(u, io) ==
    LET v == job[u].data.body.version
    IN  /\ pc[u] = "save_version"
        /\ files' = [files EXCEPT !.versions[v] = WriteFile(@, SavedText(u), io)]
        /\ IF io = "written"
           THEN /\ pc' = [pc EXCEPT ![u] = "save_current"]
                /\ result' = Forget(result)
           ELSE /\ pc' = [pc EXCEPT ![u] = "release"]
                /\ result' = [Forget(result) EXCEPT ![u] =
                                 Failure("Failed to save new configuration")]
        /\ lastRead' = NoRead
        /\ UNCHANGED <<now, ticks, cache, current_config, job, started, published,
                       cbVars, rlVars, ffVars, engVars, evalVars>>

\* save_configuration: current.json
SaveCurrent(u, io) ==
    /\ pc[u] = "save_current"
    /\ files' = [files EXCEPT !.current = WriteFile(@, SavedText(u), io)]
    /\ IF io = "written"
       THEN /\ pc' = [pc EXCEPT ![u] = "save_clear"]
            /\ result' = Forget(result)
       ELSE /\ pc' = [pc EXCEPT ![u] = "release"]
            /\ result' = [Forget(result) EXCEPT ![u] =
                             Failure("Failed to save new configuration")]
    /\ lastRead' = NoRead
    /\ UNCHANGED <<now, ticks, cache, current_config, job, started, published,
                   cbVars, rlVars, ffVars, engVars, evalVars>>

\* save_configuration: cache.delete, self._current_config = None, return True
SaveClear(u) ==
    /\ pc[u] = "save_clear"
    /\ cache' = CacheDelete(cache, KEY_CURRENT)
    /\ current_config' = [current_config EXCEPT ![u] = NoConfig]
    /\ result' = [Forget(result) EXCEPT ![u] = Success]
    /\ published' = [version |-> job[u].data.body.version, aged |-> FALSE]
    /\ pc' = [pc EXCEPT ![u] = "release"]
    /\ lastRead' = NoRead
    /\ UNCHANGED <<now, ticks, files, job, started, cbVars, rlVars, ffVars, engVars, evalVars>>

\* Variant: the call returns without deleting the lock.
Release_keeps_lock(u) ==
    /\ pc[u] = "release"
    /\ result' = [Forget(result) EXCEPT ![u].done = TRUE, ![u].data = job[u].data]
    /\ job' = [job EXCEPT ![u] = NoJob]
    /\ pc' = [pc EXCEPT ![u] = "idle"]
    /\ lastRead' = NoRead
    /\ UNCHANGED <<now, ticks, cache, files, current_config, started, published,
                   cbVars, rlVars, ffVars, engVars, evalVars>>

\* finally: cache.delete(self.update_lock_key)
Release(u) ==
    /\ pc[u] = "release"
    /\ cache' = CacheDelete(cache, KEY_LOCK)
    /\ result' = [Forget(result) EXCEPT ![u].done = TRUE, ![u].data = job[u].data]
    /\ job' = [job EXCEPT ![u] = NoJob]
    /\ pc' = [pc EXCEPT ![u] = "idle"]
    /\ lastRead' = NoRead
    /\ UNCHANGED <<now, ticks, files, current_config, started, published,
                   cbVars, rlVars, ffVars, engVars, evalVars>>

\* The update_rates calls made: every input publishing, one verify-only.
Jobs ==
    [data : ConfigData, verify_only : {FALSE}]
        \cup {[data |-> to_dict(Config2026), verify_only |-> TRUE]}

RatesTickSteps == {LOCK_TTL, CACHE_TIMEOUT}

RatesTick(d) ==
    /\ ticks < MaxRatesTicks
    /\ ticks' = ticks + 1
    /\ now' = now + d
    /\ cache' = Expire(cache, now + d)
    /\ result' = Forget(result)
    /\ lastRead' = NoRead
    /\ published' = [published EXCEPT !.aged = @ \/ (published.version # "" /\ d >= CACHE_TIMEOUT)]
    /\ UNCHANGED <<files, current_config, pc, job, started, cbVars, rlVars, ffVars, engVars, evalVars>>

\* Concurrent update_rates calls of the services.
NextRates ==
    \/ \E u \in Updaters, j \in Jobs : UpdateRates(u, j.data, j.verify_only)
    \/ \E u \in Updaters : CheckLock(u)
    \/ \E u \in Updaters : SetLock(u)
    \/ \E u \in Updaters : Validate(u)
    \/ \E u \in Updaters : GetCurrent(u)
    \/ \E u \in Updaters, io \in IOOutcomes : SaveVersion(u, io)
    \/ \E u \in Updaters, io \in IOOutcomes : SaveCurrent(u, io)
    \/ \E u \in Updaters : SaveClear(u)
    \/ \E u \in Updaters : Release(u)
    \/ \E d \in RatesTickSteps : RatesTick(d)

SpecRates == Init /\ [][NextRates]_vars

\* The same, with the global rate_engine read between the steps.
NextEngines ==
    \/ NextRates
    \/ GetCurrentRates("rate_engine")

SpecEngines == Init /\ [][NextEngines]_vars

(***************************************************************************)
(* get_current_rates over every state of the backing stores: the cache     *)
(* entry and current.json are written from outside, engines are            *)
(* constructed and read.                                                   *)
(***************************************************************************)
CachedEntries == ValidData \cup {MalformedDict}
CurrentFiles ==
    {NoFile, BrokenFile, FileOf(MalformedDict)} \cup {FileOf(d) : d \in ValidData}

\* The entry cache.get(CACHE_KEY_CURRENT) finds, as some process left it.
PutCachedEntry(data) ==
    /\ cache' = CacheSet(cache, KEY_CURRENT, data, CACHE_TIMEOUT)
    /\ lastRead' = NoRead
    /\ UNCHANGED <<now, ticks, files, current_config, pc, job, result, started,
                   published, cbVars, rlVars, ffVars, engVars, evalVars>>

\* The current.json _load_current_config finds.
PutCurrentFile(f) ==
    /\ files' = [files EXCEPT !.current = f]
    /\ lastRead' = NoRead
    /\ UNCHANGED <<now, ticks, cache, current_config, pc, job, result, started,
                   published, cbVars, rlVars, ffVars, engVars, evalVars>>

\* RateEngine.__init__: a new engine has loaded nothing.
RateEngine_init(e) ==
    /\ current_config' = [current_config EXCEPT ![e] = NoConfig]
    /\ lastRead' = NoRead
    /\ UNCHANGED <<now, ticks, cache, files, pc, job, result, started,
                   published, cbVars, rlVars, ffVars, engVars, evalVars>>

NextStores ==
    \/ \E data \in CachedEntries : PutCachedEntry(data)
    \/ \E f \in CurrentFiles : PutCurrentFile(f)
    \/ \E e \in Engines : RateEngine_init(e)
    \/ \E e \in Engines : GetCurrentRates(e)
    \/ \E d \in RatesTickSteps : RatesTick(d)

SpecStores == Init /\ [][NextStores]_vars

(***************************************************************************)
(* CircuitBreaker: properties                                              *)
(***************************************************************************)
Called == lastCall.outcome # "none"

\* C1 as stated: right after a failing call that is the n-th of a run of
\* consecutive failing calls begun on a CLOSED breaker with failure count 0,
\* the breaker is OPEN exactly when n = failure_threshold.
C1_OpensAtThreshold_AnySpacing ==
    (Called /\ lastCall.outcome = "raised" /\ run.n > 0)
        => (get_state(cache) = OPEN <=> run.n = failure_threshold)

\* C1 amended: the same, for runs in which every failing call comes less than
\* FAILURES_TTL seconds (the failure counter's cache lifetime) after the one
\* before it.
C1_OpensAtThreshold ==
    (Called /\ lastCall.outcome = "raised" /\ run.fresh > 0)
        => (get_state(cache) = OPEN <=> run.fresh = failure_threshold)

C1_Witness ==
    /\ Called /\ lastCall.outcome = "raised"
    /\ run.fresh = failure_threshold
    /\ get_state(lastCall.pre) = CLOSED
    /\ get_state(cache) = OPEN

\* C2: a call made on an OPEN breaker less than recovery_timeout after the
\* transition to OPEN raises CircuitBreakerOpenError, does not invoke the
\* wrapped function and leaves the state entry (state, timestamp) and both
\* counters as they were.
C2_OpenRejects ==
    (Called /\ get_state(lastCall.pre) = OPEN
            /\ now - last_failure(lastCall.pre) < recovery_timeout)
        => /\ lastCall.outcome = "CircuitBreakerOpenError"
           /\ ~lastCall.invoked
           /\ \A k \in CBKeys : cache[k] = lastCall.pre[k]

C2_Witness ==
    /\ Called /\ get_state(lastCall.pre) = OPEN
    /\ now - last_failure(lastCall.pre) > 0
    /\ now - last_failure(lastCall.pre) < recovery_timeout
    /\ lastCall.outcome = "CircuitBreakerOpenError"

\* C3: a successful call executed in HALF_OPEN increments the success count;
\* if that reaches success_threshold the breaker is CLOSED with both counters
\* zero, otherwise it stays HALF_OPEN with the incremented count.
C3_HalfOpenSuccess ==
    (Called /\ lastCall.outcome = "returned" /\ get_state(lastCall.mid) = HALF_OPEN)
        => LET k == get_success_count(lastCall.mid) + 1
           IN  IF k >= success_threshold
               THEN /\ get_state(cache) = CLOSED
                    /\ get_failure_count(cache) = 0
                    /\ get_success_count(cache) = 0
               ELSE /\ get_state(cache) = HALF_OPEN
                    /\ get_success_count(cache) = k

C3_Witness ==
    /\ Called /\ lastCall.outcome = "returned"
    /\ get_state(lastCall.mid) = HALF_OPEN
    /\ get_success_count(lastCall.mid) = success_threshold - 1
    /\ get_failure_count(lastCall.mid) > 0
    /\ get_state(cache) = CLOSED

\* C4: a failing call executed in HALF_OPEN leaves the breaker OPEN, with the
\* success count zero and the state timestamp set to the time of that
\* failure; and no call invokes the wrapped function after such a failure
\* before recovery_timeout seconds have passed since it.
C4_HalfOpenFailure ==
    /\ (Called /\ lastCall.outcome = "raised" /\ get_state(lastCall.mid) = HALF_OPEN)
          => /\ get_state(cache) = OPEN
             /\ get_success_count(cache) = 0
             /\ last_failure(cache) = now
             /\ reopened = now
    /\ (Called /\ lastCall.invoked /\ lastCall.reopened >= 0)
          => now - lastCall.reopened >= recovery_timeout

C4_Witness ==
    /\ Called /\ lastCall.outcome = "raised"
    /\ get_state(lastCall.mid) = HALF_OPEN
    /\ get_success_count(lastCall.mid) > 0
    /\ get_state(cache) = OPEN

(***************************************************************************)
(* RateLimiter: properties                                                 *)
(***************************************************************************)
\* The calls of h made during the seconds lo..hi, in order.
CallsIn(h, lo, hi) == SelectSeq(h, LAMBDA e : lo <= e.at /\ e.at <= hi)

Allowed(h) == Len(SelectSeq(h, LAMBDA e : e.allowed))

\* The span of window_seconds consecutive seconds that ends now.  Every span
\* is this one at its last second, and history holds all of its calls.
SpanNow(i) == CallsIn(history[i], now - window_seconds + 1, now)

\* C8 as stated: in every span of window_seconds consecutive seconds, the
\* calls on one identifier that return True are exactly the first
\* max_requests calls made in that span.
C8_FirstCallsOfAnySpan ==
    \A i \in Identifiers :
        \A n \in 1..Len(SpanNow(i)) : SpanNow(i)[n].allowed <=> n <= max_requests

\* C8 amended: a call returns True exactly when fewer than max_requests calls
\* returned True in the trailing window (the window_seconds seconds that end
\* with the second of the call); hence in every span of window_seconds
\* consecutive seconds at most max_requests calls return True.
C8_TrailingWindow ==
    \A i \in Identifiers :
        /\ \A n \in 1..Len(SpanNow(i)) :
              SpanNow(i)[n].at = now
                  => (SpanNow(i)[n].allowed
                          <=> Allowed(SubSeq(SpanNow(i), 1, n - 1)) < max_requests)
        /\ Allowed(SpanNow(i)) <= max_requests

\* A call was refused and, once earlier requests had aged out, a later one
\* in the same span allowed.
C8_Witness ==
    \E i \in Identifiers :
        \E m, n \in 1..Len(SpanNow(i)) :
            /\ m < n
            /\ ~SpanNow(i)[m].allowed
            /\ SpanNow(i)[n].allowed

(***************************************************************************)
(* RateEngine.save_configuration called directly on the global rate_engine *)
(* (Command.init_rates), one step per access to the files and the cache;   *)
(* open(path, 'w') empties the file before json.dump writes it.            *)
(***************************************************************************)
SaveInputs == {Config2026, Config2027}

\* Variant: the cache entry is left in place.
invalidate_skipped(c) == c

\* cache.delete(self.CACHE_KEY_CURRENT)
invalidate(c) == CacheDelete(c, KEY_CURRENT)

\* config.checksum = config.calculate_checksum()
SaveConfiguration(config, make_current) ==
    /\ save.pc = "idle"
    /\ save.calls < MaxSaves
    /\ save' = [pc |-> "open_version", calls |-> save.calls + 1,
                returned |-> "none", make_current |-> make_current,
                config |-> WithChecksum(config), before |-> files]
    /\ lastRead' = NoRead
    /\ UNCHANGED <<now, ticks, cache, files, current_config, pc, job, result, started,
                   published, held, cbVars, rlVars, ffVars, evalVars>>

\* The exception handler: return False
SaveFailed == [save EXCEPT !.pc = "idle", !.returned = "False"]

\* with open(version_file, 'w') as f:
OpenVersionFile(ok) ==
    /\ save.pc = "open_version"
    /\ IF ok
       THEN /\ files' = [files EXCEPT !.versions[save.config.version] = BrokenFile]
            /\ save' = [save EXCEPT !.pc = "dump_version"]
       ELSE /\ save' = SaveFailed
            /\ UNCHANGED files
    /\ lastRead' = NoRead
    /\ UNCHANGED <<now, ticks, cache, current_config, pc, job, result, started,
                   published, held, cbVars, rlVars, ffVars, evalVars>>

\* json.dump(config.to_dict(), f, indent=2), and return True without make_current
DumpVersionFile(ok) ==
    /\ save.pc = "dump_version"
    /\ IF ok
       THEN /\ files' = [files EXCEPT
                            !.versions[save.config.version] = FileOf(to_dict(save.config))]
            /\ save' = IF save.make_current
                       THEN [save EXCEPT !.pc = "open_current"]
                       ELSE [save EXCEPT !.pc = "idle", !.returned = "True"]
       ELSE /\ save' = SaveFailed
            /\ UNCHANGED files
    /\ lastRead' = NoRead
    /\ UNCHANGED <<now, ticks, cache, current_config, pc, job, result, started,
                   published, held, cbVars, rlVars, ffVars, evalVars>>

\* with open(current_file, 'w') as f:
OpenCurrentFile(ok) ==
    /\ save.pc = "open_current"
    /\ IF ok
       THEN /\ files' = [files EXCEPT !.current = BrokenFile]
            /\ save' = [save EXCEPT !.pc = "dump_current"]
       ELSE /\ save' = SaveFailed
            /\ UNCHANGED files
    /\ lastRead' = NoRead
    /\ UNCHANGED <<now, ticks, cache, current_config, pc, job, result, started,
                   published, held, cbVars, rlVars, ffVars, evalVars>>

\* json.dump(config.to_dict(), f, indent=2)
DumpCurrentFile(ok) ==
    /\ save.pc = "dump_current"
    /\ IF ok
       THEN /\ files' = [files EXCEPT !.current = FileOf(to_dict(save.config))]
            /\ save' = [save EXCEPT !.pc = "invalidate"]
       ELSE /\ save' = SaveFailed
            /\ UNCHANGED files
    /\ lastRead' = NoRead
    /\ UNCHANGED <<now, ticks, cache, current_config, pc, job, result, started,
                   published, held, cbVars, rlVars, ffVars, evalVars>>

\* cache.delete, self._current_config = None, return True
InvalidateCurrent ==
    /\ save.pc = "invalidate"
    /\ cache' = invalidate(cache)
    /\ current_config' = [current_config EXCEPT !["rate_engine"] = NoConfig]
    /\ save' = [save EXCEPT !.pc = "idle", !.returned = "True"]
    /\ lastRead' = NoRead
    /\ UNCHANGED <<now, ticks, files, pc, job, result, started,
                   published, held, cbVars, rlVars, ffVars, evalVars>>

\* The saving engine is read between its calls, another process's engine at
\* any time.
NextSave ==
    \/ \E config \in SaveInputs, make_current \in BOOLEAN :
           SaveConfiguration(config, make_current)
    \/ \E ok \in BOOLEAN : OpenVersionFile(ok)
    \/ \E ok \in BOOLEAN : DumpVersionFile(ok)
    \/ \E ok \in BOOLEAN : OpenCurrentFile(ok)
    \/ \E ok \in BOOLEAN : DumpCurrentFile(ok)
    \/ InvalidateCurrent
    \/ \E e \in {"rate_engine", "service_1"} :
           /\ e = "rate_engine" => save.pc = "idle"
           /\ GetCurrentRates(e)
    \/ \E d \in RatesTickSteps : RatesTick(d)

SpecSave == Init /\ [][NextSave]_vars

(***************************************************************************)
(* A configuration object changed after save_configuration set its         *)
(* checksum, the checksum left as it was.                                  *)
(***************************************************************************)
\* Other values a field can be given.
OtherTexts == {"", "2026.9.9"}
OtherAmounts == {None, 0, 1}

\* Every configuration that differs from config in one field.
ChangedInOneField(config) ==
    (   {[config EXCEPT !.version = v] : v \in OtherTexts}
   \cup {[config EXCEPT !.effective_date = v] : v \in OtherTexts}
   \cup {[config EXCEPT !.tax_year = v] : v \in OtherTexts}
   \cup {[config EXCEPT !.description = v] : v \in OtherTexts}
   \cup {[config EXCEPT !.source_urls = v] : v \in {<<>>, <<"">>}}
   \cup {[config EXCEPT !.tax_brackets[n].min_income = v] :
            n \in DOMAIN config.tax_brackets, v \in OtherAmounts \ {None}}
   \cup {[config EXCEPT !.tax_brackets[n].max_income = v] :
            n \in DOMAIN config.tax_brackets, v \in OtherAmounts}
   \cup {[config EXCEPT !.tax_brackets[n].rate = v] :
            n \in DOMAIN config.tax_brackets, v \in OtherAmounts \ {None}}
   \cup {[config EXCEPT !.tax_rebates[n].name = v] :
            n \in DOMAIN config.tax_rebates, v \in OtherTexts}
   \cup {[config EXCEPT !.tax_rebates[n].amount = v] :
            n \in DOMAIN config.tax_rebates, v \in OtherAmounts \ {None}}
   \cup {[config EXCEPT !.tax_rebates[n].age_category = v] :
            n \in DOMAIN config.tax_rebates, v \in OtherTexts}
   \cup {[config EXCEPT !.uif_rate = v] : v \in OtherAmounts \ {None}}
   \cup {[config EXCEPT !.uif_monthly_cap = v] : v \in OtherAmounts \ {None}}
   \cup {[config EXCEPT !.uif_annual_cap = v] : v \in OtherAmounts \ {None}}
   \cup {[config EXCEPT !.medical_credit_main = v] : v \in OtherAmounts \ {None}}
   \cup {[config EXCEPT !.medical_credit_first_dependent = v] :
            v \in OtherAmounts \ {None}}
   \cup {[config EXCEPT !.medical_credit_additional_dependent = v] :
            v \in OtherAmounts \ {None}}
    ) \ {config}

\* The caller keeps the object it saved and assigns one attribute.
ChangeField(changed) ==
    /\ save.pc = "idle"
    /\ save.returned = "True"
    /\ ~held.saved
    /\ held' = [saved |-> TRUE, config |-> changed]
    /\ lastRead' = NoRead
    /\ UNCHANGED <<now, ticks, cache, save, files, current_config, pc, job, result,
                   started, published, cbVars, rlVars, ffVars, evalVars>>

NextIntegrity ==
    \/ \E config \in SaveInputs, make_current \in BOOLEAN :
           ~held.saved /\ SaveConfiguration(config, make_current)
    \/ \E ok \in BOOLEAN : OpenVersionFile(ok)
    \/ \E ok \in BOOLEAN : DumpVersionFile(ok)
    \/ \E ok \in BOOLEAN : OpenCurrentFile(ok)
    \/ \E ok \in BOOLEAN : DumpCurrentFile(ok)
    \/ InvalidateCurrent
    \/ \E changed \in ChangedInOneField(save.config) : ChangeField(changed)

SpecIntegrity == Init /\ [][NextIntegrity]_vars

(***************************************************************************)
(* FeatureFlagManager                                                      *)
(* Percentages are whole percents, success rates hundredths of a percent.  *)
(***************************************************************************)
OFF == "off"
ON == "on"
PERCENTAGE == "percentage"
USER_LIST == "user_list"
CANARY == "canary"
SHADOW == "shadow"

FLAGS_TIMEOUT == 300
SHADOW_TTL == 3600
CANARY_TTL == 3600
FULL_RATE == 10000

\* FeatureFlag with the dataclass defaults
FeatureFlag(strategy, enabled, percentage) ==
    [strategy |-> strategy, enabled |-> enabled, percentage |-> percentage,
     user_ids |-> {},
     canary_percentage |-> 5,
     canary_success_threshold |-> 9900,
     shadow_percentage |-> 10]

\* _initialize_default_flags
default_flags ==
       ("new_tax_engine" :> FeatureFlag(CANARY, TRUE, 0))
    @@ ("enhanced_error_handling" :> FeatureFlag(PERCENTAGE, TRUE, 50))
    @@ ("observability_tracing" :> FeatureFlag(ON, TRUE, 0))
    @@ ("circuit_breakers" :> FeatureFlag(ON, TRUE, 0))
    @@ ("shadow_calculation_comparison" :> FeatureFlag(SHADOW, TRUE, 0))

\* int(hashlib.md5(hash_input.encode()).hexdigest()[:8], 16) % 100 + 1
user_percentage ==
       ("4:new_tax_engine" :> 13)
    @@ ("4:canary:new_tax_engine" :> 76)
    @@ ("4:shadow:new_tax_engine" :> 64)
    @@ ("4:enhanced_error_handling" :> 65)
    @@ ("4:canary:enhanced_error_handling" :> 7)
    @@ ("4:shadow:enhanced_error_handling" :> 97)
    @@ ("4:observability_tracing" :> 58)
    @@ ("4:canary:observability_tracing" :> 41)
    @@ ("4:shadow:observability_tracing" :> 59)
    @@ ("4:circuit_breakers" :> 72)
    @@ ("4:canary:circuit_breakers" :> 27)
    @@ ("4:shadow:circuit_breakers" :> 35)
    @@ ("4:shadow_calculation_comparison" :> 66)
    @@ ("4:canary:shadow_calculation_comparison" :> 41)
    @@ ("4:shadow:shadow_calculation_comparison" :> 10)
    @@ ("113:new_tax_engine" :> 10)
    @@ ("113:canary:new_tax_engine" :> 4)
    @@ ("113:shadow:new_tax_engine" :> 19)
    @@ ("113:enhanced_error_handling" :> 34)
    @@ ("113:canary:enhanced_error_handling" :> 79)
    @@ ("113:shadow:enhanced_error_handling" :> 52)
    @@ ("113:observability_tracing" :> 44)
    @@ ("113:canary:observability_tracing" :> 77)
    @@ ("113:shadow:observability_tracing" :> 100)
    @@ ("113:circuit_breakers" :> 85)
    @@ ("113:canary:circuit_breakers" :> 51)
    @@ ("113:shadow:circuit_breakers" :> 88)
    @@ ("113:shadow_calculation_comparison" :> 73)
    @@ ("113:canary:shadow_calculation_comparison" :> 17)
    @@ ("113:shadow:shadow_calculation_comparison" :> 40)

\* Variant: the bucket moves with the clock.
percentage_rollout_by_clock(flag, flag_name, user) ==
    IF user = None THEN FALSE
    ELSE user_percentage[ToString(user) \o ":" \o flag_name] + now <= flag.percentage

percentage_rollout(flag, flag_name, user) ==
    IF user = None THEN FALSE
    ELSE user_percentage[ToString(user) \o ":" \o flag_name] <= flag.percentage

user_list_rollout(flag, user) ==
    IF user = None THEN FALSE ELSE user \in flag.user_ids

NoCanaryData == [total |-> 0, successes |-> 0, success_rate |-> FULL_RATE]

get_canary_success_rate(c, flag_name) ==
    CacheGet(c, CanaryKey(flag_name), NoCanaryData).success_rate

\* Variant: a user of the canary group gets the new behaviour whatever the
\* success rate.
canary_rollout_fail_open(c, flag, flag_name, user) ==
    IF user = None THEN FALSE
    ELSE user_percentage[ToString(user) \o ":canary:" \o flag_name]
             <= flag.canary_percentage

canary_rollout(c, flag, flag_name, user) ==
    IF user = None THEN FALSE
    ELSE IF user_percentage[ToString(user) \o ":canary:" \o flag_name]
                <= flag.canary_percentage
    THEN get_canary_success_rate(c, flag_name) >= flag.canary_success_threshold
    ELSE FALSE

\* _track_shadow_user: the cache it leaves
track_shadow_user(c, flag, flag_name, user) ==
    IF user = None THEN c
    ELSE IF user_percentage[ToString(user) \o ":shadow:" \o flag_name]
                <= flag.shadow_percentage
    THEN CacheSet(c, ShadowKey(flag_name, user), TRUE, SHADOW_TTL)
    ELSE c

\* Variant: the shadow strategy answers True for the users it tracks.
evaluate_flag_shadow_live(c, flag, flag_name, user) ==
    IF flag.strategy = OFF THEN [result |-> FALSE, cache |-> c]
    ELSE IF flag.strategy = ON THEN [result |-> TRUE, cache |-> c]
    ELSE IF flag.strategy = PERCENTAGE
    THEN [result |-> percentage_rollout(flag, flag_name, user), cache |-> c]
    ELSE IF flag.strategy = USER_LIST
    THEN [result |-> user_list_rollout(flag, user), cache |-> c]
    ELSE IF flag.strategy = CANARY
    THEN [result |-> canary_rollout(c, flag, flag_name, user), cache |-> c]
    ELSE IF flag.strategy = SHADOW
    THEN [result |-> track_shadow_user(c, flag, flag_name, user) # c,
          cache |-> track_shadow_user(c, flag, flag_name, user)]
    ELSE [result |-> FALSE, cache |-> c]

\* _evaluate_flag: what it returns and the cache it leaves
evaluate_flag(c, flag, flag_name, user) ==
    IF flag.strategy = OFF THEN [result |-> FALSE, cache |-> c]
    ELSE IF flag.strategy = ON THEN [result |-> TRUE, cache |-> c]
    ELSE IF flag.strategy = PERCENTAGE
    THEN [result |-> percentage_rollout(flag, flag_name, user), cache |-> c]
    ELSE IF flag.strategy = USER_LIST
    THEN [result |-> user_list_rollout(flag, user), cache |-> c]
    ELSE IF flag.strategy = CANARY
    THEN [result |-> canary_rollout(c, flag, flag_name, user), cache |-> c]
    ELSE IF flag.strategy = SHADOW
    THEN [result |-> FALSE, cache |-> track_shadow_user(c, flag, flag_name, user)]
    ELSE [result |-> FALSE, cache |-> c]

\* Variant: flag.enabled is not looked at.
is_enabled_ignores_enabled(fl, c, flag_name, user) ==
    IF flag_name \notin DOMAIN fl THEN [result |-> FALSE, cache |-> c]
    ELSE evaluate_flag(c, fl[flag_name], flag_name, user)

\* is_enabled on a manager whose self.flags is fl
is_enabled(fl, c, flag_name, user) ==
    IF flag_name \notin DOMAIN fl THEN [result |-> FALSE, cache |-> c]
    ELSE IF ~fl[flag_name].enabled THEN [result |-> FALSE, cache |-> c]
    ELSE evaluate_flag(c, fl[flag_name], flag_name, user)

\* _save_flags
save_flags(c, fl) == CacheSet(c, KEY_FLAGS, fl, FLAGS_TIMEOUT)

allowed_fields == {"enabled", "strategy", "percentage", "user_ids", "canary_percentage"}

\* setattr(flag, field, value) for the allowed fields of kwargs
updated_flag(flag, kwargs) ==
    [field \in DOMAIN flag |->
        IF field \in DOMAIN kwargs /\ field \in allowed_fields
        THEN kwargs[field]
        ELSE flag[field]]

\* Variant: only enabled is cleared, the strategy is kept.
emergency_disable_keeps_strategy(fl, flag_name) ==
    [fl EXCEPT ![flag_name].enabled = FALSE]

\* emergency_disable on a known flag: the self.flags it leaves
emergency_disable(fl, flag_name) ==
    [fl EXCEPT ![flag_name].enabled = FALSE, ![flag_name].strategy = OFF]

Constructed(m) == DOMAIN flags[m] # {}

\* FeatureFlagManager.__init__, in a starting process
FeatureFlagManager_init(m) ==
    LET cached_flags == CacheGet(cache, KEY_FLAGS, NoFlags)
    IN  /\ IF DOMAIN cached_flags # {}
           THEN /\ flags' = [flags EXCEPT ![m] = cached_flags]
                /\ UNCHANGED cache
           ELSE /\ flags' = [flags EXCEPT ![m] = default_flags]
                /\ cache' = save_flags(cache, default_flags)
        /\ emergency' = [emergency EXCEPT ![m] = {}]
        /\ UNCHANGED <<now, ticks, flagOps, cbVars, rlVars, ratesVars, engVars>>

IsEnabled(m, flag_name, user) ==
    LET r == is_enabled(flags[m], cache, flag_name, user)
    IN  /\ Constructed(m)
        /\ cache' = r.cache
        /\ emergency' =
               [emergency EXCEPT
                   ![m] = {IF e.flag_name = flag_name
                           THEN [e EXCEPT !.asked = TRUE,
                                          !.answered = @ \cup {r.result}]
                           ELSE e : e \in @}]
        /\ UNCHANGED <<now, ticks, flags, flagOps, cbVars, rlVars, ratesVars, engVars>>

\* The keyword arguments the management command passes, and one that is not
\* an allowed field.
FlagUpdates ==
    {[enabled |-> TRUE],
     [enabled |-> FALSE],
     [strategy |-> PERCENTAGE, percentage |-> 100, enabled |-> TRUE],
     [shadow_percentage |-> 100]}

UpdateFlag(m, flag_name, kwargs) ==
    /\ Constructed(m)
    /\ flagOps < MaxFlagOps
    /\ flagOps' = flagOps + 1
    /\ IF flag_name \notin DOMAIN flags[m]
       THEN UNCHANGED <<flags, cache, emergency>>
       ELSE LET flag == updated_flag(flags[m][flag_name], kwargs)
                fl == [flags[m] EXCEPT ![flag_name] = flag]
            IN  /\ flags' = [flags EXCEPT ![m] = fl]
                /\ cache' = save_flags(cache, fl)
                /\ emergency' =
                       IF flag = flags[m][flag_name] THEN emergency
                       ELSE [emergency EXCEPT
                                ![m] = {e \in @ : e.flag_name # flag_name}]
    /\ UNCHANGED <<now, ticks, cbVars, rlVars, ratesVars, engVars>>

EmergencyDisable(m, flag_name) ==
    /\ Constructed(m)
    /\ flagOps < MaxFlagOps
    /\ flagOps' = flagOps + 1
    /\ IF flag_name \notin DOMAIN flags[m]
       THEN UNCHANGED <<flags, cache, emergency>>
       ELSE LET fl == emergency_disable(flags[m], flag_name)
            IN  /\ flags' = [flags EXCEPT ![m] = fl]
                /\ cache' = save_flags(cache, fl)
                /\ emergency' =
                       [emergency EXCEPT
                           ![m] = {e \in @ : e.flag_name # flag_name}
                                      \cup {[flag_name |-> flag_name,
                                             was |-> flags[m][flag_name],
                                             asked |-> FALSE,
                                             answered |-> {}]}]
    /\ UNCHANGED <<now, ticks, cbVars, rlVars, ratesVars, engVars>>

\* Variant: a failed call is not counted.
record_canary_result_successes_only(c, flag_name, success) ==
    LET data == CacheGet(c, CanaryKey(flag_name), NoCanaryData)
        total == data.total + (IF success THEN 1 ELSE 0)
        successes == data.successes + (IF success THEN 1 ELSE 0)
    IN  CacheSet(c, CanaryKey(flag_name),
                 [total |-> total, successes |-> successes,
                  success_rate |-> IF total = 0 THEN FULL_RATE
                                   ELSE (successes * FULL_RATE) \div total],
                 CANARY_TTL)

\* record_canary_result: the cache it leaves
record_canary_result(c, flag_name, success) ==
    LET data == CacheGet(c, CanaryKey(flag_name), NoCanaryData)
        total == data.total + 1
        successes == data.successes + (IF success THEN 1 ELSE 0)
    IN  CacheSet(c, CanaryKey(flag_name),
                 [total |-> total, successes |-> successes,
                  success_rate |-> (successes * FULL_RATE) \div total],
                 CANARY_TTL)

RecordCanaryResult(m, flag_name, success) ==
    LET data == CacheGet(cache, CanaryKey(flag_name), NoCanaryData)
    IN  /\ Constructed(m)
        /\ data.total < MaxCanaryResults
        /\ cache' = record_canary_result(cache, flag_name, success)
        /\ UNCHANGED <<now, ticks, flags, flagOps, emergency, cbVars, rlVars, ratesVars, engVars>>

FFTickSteps == {FLAGS_TIMEOUT, CANARY_TTL}

FFTick(d) ==
    /\ ticks < MaxFFTicks
    /\ ticks' = ticks + 1
    /\ now' = now + d
    /\ cache' = Expire(cache, now + d)
    /\ UNCHANGED <<flags, flagOps, emergency, cbVars, rlVars, ratesVars, engVars>>

NextFF ==
    \/ \E m \in Managers : FeatureFlagManager_init(m) /\ UNCHANGED evalVars
    \/ \E m \in Managers, f \in FlagInputs, user \in Users \cup {None} :
           IsEnabled(m, f, user) /\ UNCHANGED evalVars
    \/ \E m \in Managers, f \in FlagTargets, kwargs \in FlagUpdates :
           UpdateFlag(m, f, kwargs) /\ UNCHANGED evalVars
    \/ \E m \in Managers, f \in FlagTargets : EmergencyDisable(m, f) /\ UNCHANGED evalVars
    \/ \E m \in Managers, success \in BOOLEAN :
           RecordCanaryResult(m, "new_tax_engine", success) /\ UNCHANGED evalVars
    \/ \E d \in FFTickSteps : FFTick(d) /\ UNCHANGED evalVars

SpecFF == Init /\ [][NextFF]_vars

(***************************************************************************)
(* Properties of update_rates and get_current_rates                        *)
(***************************************************************************)
\* The steps of update_rates after cache.set of the lock, up to its deletion.
UpdateSection ==
    {"validate", "get_current", "save_version", "save_current", "save_clear", "release"}

\* C5: across any interleaving of concurrent update_rates calls, at most one
\* call at a time is past lock acquisition and before lock release.
C5_OneUpdateAtATime ==
    Cardinality({u \in Updaters : pc[u] \in UpdateSection}) <= 1

\* The data of the call of u that takes a step.
DataOfStep(u) == IF pc[u] = "idle" THEN job'[u].data ELSE job[u].data

\* C6: no step of an update_rates call whose data fails deserialization, the
\* integrity check or validation changes the current pointer, a version record
\* or the cached current configuration; such a call returns success=False; and
\* what update_rates makes current has passed integrity and validation.
C6_InvalidNeverPublished ==
    /\ [][\A u \in Updaters :
              (pc'[u] # pc[u] /\ ~Acceptable(DataOfStep(u)))
                  => /\ files' = files
                     /\ cache'[KEY_CURRENT] = cache[KEY_CURRENT]]_vars
    /\ [](\A u \in Updaters :
              (result[u].done /\ ~Acceptable(result[u].data)) => ~result[u].success)
    /\ []((files.current.exists /\ files.current.json)
              => Acceptable(files.current.text))
    /\ [](Live(cache, KEY_CURRENT) => Acceptable(cache[KEY_CURRENT].value))

\* A call with a tampered configuration took the lock and has returned its
\* failure, while an earlier published configuration is current.
C6_Witness ==
    \E u \in Updaters :
        /\ result[u].done
        /\ result[u].data = DataTampered
        /\ result[u].error = "Configuration integrity check failed"
        /\ files.current.exists
        /\ files.current.json

\* C9: get_current_rates never raises, whatever the cache entry and
\* current.json hold.
C9_NeverRaises == lastRead.outcome # "raised"

\* C10: when the stored current configuration is the published one, no update
\* is in progress and a whole cache TTL has passed since the publish,
\* get_current_rates on another engine returns the published configuration.
C10_ReadersConverge ==
    (/\ lastRead.outcome = "returned"
     /\ lastRead.published # ""
     /\ lastRead.stored = lastRead.published
     /\ lastRead.quiet
     /\ lastRead.aged)
        => lastRead.version = lastRead.published

(***************************************************************************)
(* Properties of FeatureFlagManager                                        *)
(***************************************************************************)
\* C7: a flag emergency_disable disabled on a manager has enabled=False and
\* strategy=OFF on it, and is_enabled on that manager returns False for every
\* user and for no user, until update_flag changes the flag.
C7_EmergencyDisableHolds ==
    \A m \in Managers : \A e \in emergency[m] :
        /\ e.flag_name \in DOMAIN flags[m]
        /\ flags[m][e.flag_name].enabled = FALSE
        /\ flags[m][e.flag_name].strategy = OFF
        /\ \A user \in Users \cup {None} :
               ~is_enabled(flags[m], cache, e.flag_name, user).result
        /\ TRUE \notin e.answered

\* A canary flag with recorded results at the threshold, enabled for user 113
\* of the canary group, was emergency-disabled and is_enabled has been called
\* for it since.
C7_Witness ==
    \E m \in Managers : \E e \in emergency[m] :
        /\ e.flag_name = "new_tax_engine"
        /\ e.was.strategy = CANARY
        /\ e.was.enabled
        /\ Live(cache, CanaryKey(e.flag_name))
        /\ get_canary_success_rate(cache, e.flag_name) >= e.was.canary_success_threshold
        /\ canary_rollout(cache, e.was, e.flag_name, 113)
        /\ e.asked

(***************************************************************************)
(* is_enabled observed: one manager, its flags moved through the           *)
(* strategies by update_flag.                                              *)
(***************************************************************************)
EvalUpdates ==
    {[enabled |-> FALSE],
     [strategy |-> OFF],
     [strategy |-> ON],
     [strategy |-> PERCENTAGE, percentage |-> 10],
     [strategy |-> USER_LIST, user_ids |-> {4}],
     [strategy |-> CANARY, canary_percentage |-> 100],
     [strategy |-> SHADOW]}

\* The call is_enabled(flag_name, user) on manager m as the caller sees it.
Observation(m, flag_name, user) ==
    [called |-> TRUE, manager |-> m, flag_name |-> flag_name, user |-> user,
     known |-> flag_name \in DOMAIN flags[m],
     flag |-> IF flag_name \in DOMAIN flags[m] THEN flags[m][flag_name]
              ELSE FeatureFlag(OFF, FALSE, 0),
     success_rate |-> get_canary_success_rate(cache, flag_name),
     result |-> is_enabled(flags[m], cache, flag_name, user).result]

Observe(m, flag_name, user) ==
    /\ asked' = Observation(m, flag_name, user)
    /\ UNCHANGED <<first, promotion, mutation, moreVars>>

Unobserved ==
    /\ asked' = NoAsk
    /\ UNCHANGED <<first, promotion, mutation, moreVars>>

NextEval ==
    \/ FeatureFlagManager_init("web") /\ Unobserved
    \/ \E f \in FlagInputs, user \in Users \cup {None} :
           IsEnabled("web", f, user) /\ Observe("web", f, user)
    \/ \E kwargs \in EvalUpdates : UpdateFlag("web", "new_tax_engine", kwargs) /\ Unobserved
    \/ \E success \in BOOLEAN :
           RecordCanaryResult("web", "new_tax_engine", success) /\ Unobserved
    \/ \E d \in FFTickSteps : FFTick(d) /\ Unobserved

SpecEval == Init /\ [][NextEval]_vars

(***************************************************************************)
(* Percentage rollout observed on two managers, across restarts            *)
(* (FeatureFlagManager_init of a constructed manager) and the clock.       *)
(***************************************************************************)
PctUpdates ==
    {[strategy |-> PERCENTAGE, percentage |-> 10, enabled |-> TRUE],
     [strategy |-> PERCENTAGE, percentage |-> 50, enabled |-> TRUE]}

\* A call under the percentage strategy
IsPercentageCall(o) ==
    o.called /\ o.known /\ o.flag.enabled /\ o.flag.strategy = PERCENTAGE

\* The observed call is kept for comparison, or the one kept stays.
ObserveAndKeep(m, flag_name, user, keep) ==
    /\ asked' = Observation(m, flag_name, user)
    /\ first' = IF keep /\ IsPercentageCall(Observation(m, flag_name, user))
                THEN Observation(m, flag_name, user)
                ELSE first
    /\ UNCHANGED <<promotion, mutation, moreVars>>

NextPct ==
    \/ \E m \in Managers : FeatureFlagManager_init(m) /\ Unobserved
    \/ \E m \in Managers, f \in PctFlags, user \in Users \cup {None}, keep \in BOOLEAN :
           IsEnabled(m, f, user) /\ ObserveAndKeep(m, f, user, keep)
    \/ \E m \in Managers, kwargs \in PctUpdates :
           UpdateFlag(m, "new_tax_engine", kwargs) /\ Unobserved
    \/ \E d \in FFTickSteps : FFTick(d) /\ Unobserved

SpecPct == Init /\ [][NextPct]_vars

(***************************************************************************)
(* Command.promote_canary of manage_feature_flags, on the command          *)
(* process's manager                                                       *)
(***************************************************************************)
\* Python values of two types: a member of the Enum RolloutStrategy and a
\* str.  A member never equals a str, whatever its value.
RolloutStrategyMember(value) == [type |-> "RolloutStrategy", value |-> value]
Str(text) == [type |-> "str", value |-> text]

NoStatus == [found |-> FALSE]

\* get_flag_status: asdict(flag) keeps strategy as the Enum member;
\* canary_metrics is added for a canary flag.
get_flag_status(fl, c, flag_name) ==
    IF flag_name \notin DOMAIN fl THEN NoStatus
    ELSE [found |-> TRUE,
          strategy |-> RolloutStrategyMember(fl[flag_name].strategy),
          canary_success_threshold |-> fl[flag_name].canary_success_threshold,
          canary_metrics |->
              IF fl[flag_name].strategy = CANARY
              THEN [present |-> TRUE,
                    success_rate |-> get_canary_success_rate(c, flag_name)]
              ELSE [present |-> FALSE]]

\* promote_canary: how it ends and the self.flags it leaves
promote_canary(fl, c, flag_name) ==
    LET status == get_flag_status(fl, c, flag_name)
    IN  IF ~status.found THEN [outcome |-> "not_found", flags |-> fl]
        ELSE IF status.strategy # Str("canary")
        THEN [outcome |-> "not_canary", flags |-> fl]
        ELSE LET success_rate == IF status.canary_metrics.present
                                 THEN status.canary_metrics.success_rate
                                 ELSE 0
             IN  IF success_rate < status.canary_success_threshold
                 THEN [outcome |-> "unhealthy", flags |-> fl]
                 ELSE [outcome |-> "promoted",
                       flags |-> [fl EXCEPT ![flag_name] =
                                     updated_flag(@, [strategy |-> ON, enabled |-> TRUE])]]

PromoteCanary(flag_name) ==
    LET r == promote_canary(flags["command"], cache, flag_name)
    IN  /\ Constructed("command")
        /\ flags' = [flags EXCEPT !["command"] = r.flags]
        /\ cache' = IF r.outcome = "promoted" THEN save_flags(cache, r.flags) ELSE cache
        /\ promotion' =
               [called |-> TRUE, flag_name |-> flag_name,
                known |-> flag_name \in DOMAIN flags["command"],
                before |-> IF flag_name \in DOMAIN flags["command"]
                           THEN flags["command"][flag_name]
                           ELSE FeatureFlag(OFF, FALSE, 0),
                success_rate |-> get_canary_success_rate(cache, flag_name),
                outcome |-> r.outcome]
        /\ UNCHANGED <<now, ticks, flagOps, emergency, asked, first, mutation, moreVars,
                       cbVars, rlVars, ratesVars, engVars>>

Unpromoted ==
    /\ promotion' = NoPromotion
    /\ UNCHANGED <<asked, first, mutation, moreVars>>

NextPromote ==
    \/ FeatureFlagManager_init("command") /\ Unpromoted
    \/ \E f \in FlagTargets, kwargs \in FlagUpdates :
           UpdateFlag("command", f, kwargs) /\ Unpromoted
    \/ \E success \in BOOLEAN :
           RecordCanaryResult("command", "new_tax_engine", success) /\ Unpromoted
    \/ \E f \in FlagTargets : PromoteCanary(f)
    \/ \E d \in FFTickSteps : FFTick(d) /\ Unpromoted

SpecPromote == Init /\ [][NextPromote]_vars

(***************************************************************************)
(* The web process's manager reading while the command process's manager   *)
(* changes flags.                                                          *)
(***************************************************************************)
\* The command changed flag_name just now: the flag it left, the time, and
\* the other managers running at that moment.
Mutated(flag_name) ==
    /\ mutation' =
           IF flag_name \in DOMAIN flags["command"]
           THEN [made |-> TRUE, flag_name |-> flag_name,
                 flag |-> flags'["command"][flag_name], at |-> now,
                 running |-> {m \in Managers \ {"command"} : Constructed(m)}]
           ELSE mutation
    /\ asked' = NoAsk
    /\ UNCHANGED <<first, promotion, moreVars>>

\* A manager constructed again is no longer one that was running before.
Restarted(m) ==
    /\ mutation' = IF mutation.made
                   THEN [mutation EXCEPT !.running = @ \ {m}]
                   ELSE mutation
    /\ asked' = NoAsk
    /\ UNCHANGED <<first, promotion, moreVars>>

NextShare ==
    \/ \E m \in Managers : FeatureFlagManager_init(m) /\ Restarted(m)
    \/ \E f \in FlagInputs, user \in Users \cup {None} :
           IsEnabled("web", f, user) /\ Observe("web", f, user)
    \/ \E f \in FlagTargets, kwargs \in FlagUpdates :
           UpdateFlag("command", f, kwargs) /\ Mutated(f)
    \/ \E f \in FlagTargets : EmergencyDisable("command", f) /\ Mutated(f)
    \/ \E d \in FFTickSteps : FFTick(d) /\ Unobserved

SpecShare == Init /\ [][NextShare]_vars

(***************************************************************************)
(* shadow_mode: the wrapper around a primary function, and the shadow      *)
(* function run for the users _track_shadow_user marked                    *)
(***************************************************************************)
\* What a wrapped function does when called: it returns a value or raises.
Returns(value) == [raised |-> FALSE, value |-> value]
Raises(error) == [raised |-> TRUE, error |-> error]
PrimaryOutcomes == {Returns(1), Returns(2), Raises("PrimaryError")}
ShadowOutcomes == {Returns(1), Returns(2), Raises("ShadowError")}

\* should_run_shadow
should_run_shadow(c, flag_name, user) ==
    IF user = None THEN FALSE
    ELSE CacheGet(c, ShadowKey(flag_name, user), FALSE)

\* _compare_results, which is logged
compare_results(primary, shadow) == [match |-> primary = shadow]

\* Variant: the shadow function's result is returned when it ran.
shadow_wrapper_returns_shadow(c, flag_name, user, primary, shadow) ==
    IF primary.raised THEN [returned |-> primary, ran_shadow |-> FALSE]
    ELSE IF should_run_shadow(c, flag_name, user)
    THEN [returned |-> IF shadow.raised THEN primary ELSE shadow, ran_shadow |-> TRUE]
    ELSE [returned |-> primary, ran_shadow |-> FALSE]

\* wrapper of shadow_mode: what the caller gets and whether shadow_func ran;
\* an exception of func leaves the wrapper at its first line, one of
\* shadow_func is caught and logged.
shadow_wrapper(c, flag_name, user, primary, shadow) ==
    IF primary.raised THEN [returned |-> primary, ran_shadow |-> FALSE]
    ELSE IF should_run_shadow(c, flag_name, user)
    THEN [returned |-> primary, ran_shadow |-> TRUE]
    ELSE [returned |-> primary, ran_shadow |-> FALSE]

ShadowCall(flag_name, user, primary, shadow) ==
    LET r == shadow_wrapper(cache, flag_name, user, primary, shadow)
    IN  /\ wrapped' = [called |-> TRUE, flag_name |-> flag_name, user |-> user,
                       primary |-> primary, shadow |-> shadow,
                       ran_shadow |-> r.ran_shadow, returned |-> r.returned]
        /\ UNCHANGED <<now, ticks, cache, cbVars, rlVars, ratesVars, ffVars, engVars,
                       ffObs, calc, slo, race>>

Unwrapped ==
    /\ wrapped' = NoWrapped
    /\ UNCHANGED <<ffObs, calc, slo, race>>

ShadowFlags == {"shadow_calculation_comparison", "new_tax_engine"}

NextShadow ==
    \/ FeatureFlagManager_init("web") /\ Unwrapped
    \/ \E f \in ShadowFlags, user \in Users \cup {None} :
           IsEnabled("web", f, user) /\ Unwrapped
    \/ \E f \in ShadowFlags, user \in Users \cup {None},
          primary \in PrimaryOutcomes, shadow \in ShadowOutcomes :
           ShadowCall(f, user, primary, shadow)
    \/ \E d \in FFTickSteps : FFTick(d) /\ Unwrapped

SpecShadow == Init /\ [][NextShadow]_vars

(***************************************************************************)
(* utils.py: validate_financial_input and SARSTaxCalculator.  Amounts are  *)
(* in cents, rates in thousandths, taxes in thousandths of a cent.         *)
(***************************************************************************)
\* The values a caller can pass as an amount.
NoneValue == [type |-> "NoneType"]
StrValue(text) == [type |-> "str", text |-> text]
Number(value) == [type |-> "Decimal", value |-> value]

\* Decimal(text) for the strings used: the value, or InvalidOperation.
NumericStrings == ("10.00" :> 1000) @@ ("-10.00" :> (0 - 1000))
BlankStrings == {"", "   "}

\* validate_financial_input
validate_financial_input(value) ==
    IF value.type = "NoneType" THEN Raises("TypeError")
    ELSE LET decimal_value ==
                 IF value.type = "str"
                 THEN IF value.text \in BlankStrings THEN Raises("ValueError")
                      ELSE IF value.text \in DOMAIN NumericStrings
                      THEN Returns(NumericStrings[value.text])
                      ELSE Raises("ValueError")
                 ELSE Returns(value.value)
         IN  IF decimal_value.raised THEN decimal_value
             ELSE IF decimal_value.value < 0 THEN Raises("ValueError")
             ELSE decimal_value

\* Decimal(str(value)), the conversion of the entry points that do not
\* call validate_financial_input
Decimal_of_str(value) ==
    IF value.type = "NoneType" THEN Raises("InvalidOperation")
    ELSE IF value.type = "str"
    THEN IF value.text \in DOMAIN NumericStrings
         THEN Returns(NumericStrings[value.text])
         ELSE Raises("InvalidOperation")
    ELSE Returns(value.value)

FALLBACK_PRIMARY_REBATE == 1723500
FALLBACK_SECONDARY_REBATE == 330000
FALLBACK_TERTIARY_REBATE == 147000
FALLBACK_UIF_RATE == 10
FALLBACK_UIF_MONTHLY_CAP == 17712

\* FALLBACK_TAX_BRACKETS as (limit, rate)
FALLBACK_TAX_BRACKETS ==
    [n \in DOMAIN default_2025_config.tax_brackets |->
        [limit |-> IF default_2025_config.tax_brackets[n].max_income = None
                   THEN Infinity
                   ELSE default_2025_config.tax_brackets[n].max_income,
         rate |-> default_2025_config.tax_brackets[n].rate]]

\* get_tax_brackets; config is what _get_current_config returned
get_tax_brackets(config) ==
    IF config.loaded
    THEN [n \in DOMAIN config.config.tax_brackets |->
             [limit |-> IF config.config.tax_brackets[n].max_income \in {None, 0}
                        THEN Infinity
                        ELSE config.config.tax_brackets[n].max_income,
              rate |-> config.config.tax_brackets[n].rate]]
    ELSE FALLBACK_TAX_BRACKETS

\* get_primary_rebate, get_secondary_rebate, get_tertiary_rebate: the first
\* rebate of the category, or the fallback
get_rebate(config, age_category, fallback) ==
    IF config.loaded
          /\ \E n \in DOMAIN config.config.tax_rebates :
                 config.config.tax_rebates[n].age_category = age_category
    THEN LET n == CHOOSE k \in DOMAIN config.config.tax_rebates :
                      /\ config.config.tax_rebates[k].age_category = age_category
                      /\ \A j \in 1..(k - 1) :
                             config.config.tax_rebates[j].age_category # age_category
         IN  config.config.tax_rebates[n].amount
    ELSE fallback

Min(a, b) == IF a <= b THEN a ELSE b

RECURSIVE brackets_loop_slab(_, _, _, _)
\* Variant: the whole income is taxed at the rate of the bracket it falls in.
brackets_loop_slab(brackets, annual_income, previous_limit, tax_before_rebates) ==
    IF brackets = <<>> THEN tax_before_rebates
    ELSE LET bracket == Head(brackets)
         IN  IF bracket.limit = Infinity \/ annual_income <= bracket.limit
                    \/ Tail(brackets) = <<>>
             THEN annual_income * bracket.rate
             ELSE brackets_loop_slab(Tail(brackets), annual_income, bracket.limit,
                                     tax_before_rebates)

RECURSIVE brackets_loop_double_count(_, _, _, _)
\* Variant: previous_limit is not moved to the bracket just taxed.
brackets_loop_double_count(brackets, annual_income, previous_limit, tax_before_rebates) ==
    IF brackets = <<>> THEN tax_before_rebates
    ELSE LET bracket == Head(brackets)
             current_limit == IF bracket.limit # Infinity THEN bracket.limit
                              ELSE annual_income
         IN  IF annual_income <= previous_limit THEN tax_before_rebates
             ELSE LET taxable_in_bracket == Min(annual_income, current_limit) - previous_limit
                      tax == IF taxable_in_bracket > 0
                             THEN tax_before_rebates + taxable_in_bracket * bracket.rate
                             ELSE tax_before_rebates
                  IN  IF bracket.limit = Infinity \/ annual_income <= current_limit
                      THEN tax
                      ELSE brackets_loop_double_count(Tail(brackets), annual_income,
                                                      previous_limit, tax)

RECURSIVE brackets_loop(_, _, _, _)
\* The loop over the brackets of _calculate_annual_tax_impl, from the
\* bracket at the head on
brackets_loop(brackets, annual_income, previous_limit, tax_before_rebates) ==
    IF brackets = <<>> THEN tax_before_rebates
    ELSE LET bracket == Head(brackets)
             current_limit == IF bracket.limit # Infinity THEN bracket.limit
                              ELSE annual_income
         IN  IF annual_income <= previous_limit THEN tax_before_rebates
             ELSE LET taxable_in_bracket == Min(annual_income, current_limit) - previous_limit
                      tax == IF taxable_in_bracket > 0
                             THEN tax_before_rebates + taxable_in_bracket * bracket.rate
                             ELSE tax_before_rebates
                  IN  IF bracket.limit = Infinity \/ annual_income <= current_limit
                      THEN tax
                      ELSE brackets_loop(Tail(brackets), annual_income, current_limit, tax)

AgeCategories == {"under_65", "65_to_74", "75_plus"}

total_rebate(config, age_category) ==
    get_rebate(config, "under_65", FALLBACK_PRIMARY_REBATE)
        + (IF age_category \in {"65_to_74", "75_plus"}
           THEN get_rebate(config, "65_to_74", FALLBACK_SECONDARY_REBATE) ELSE 0)
        + (IF age_category = "75_plus"
           THEN get_rebate(config, "75_plus", FALLBACK_TERTIARY_REBATE) ELSE 0)

\* Variant: the rebate is subtracted without the floor at zero.
final_tax_unfloored(tax_before_rebates, rebate) ==
    ((tax_before_rebates \div 1000) - rebate) * 1000 + (tax_before_rebates % 1000)

\* max(Decimal('0'), tax_before_rebates - total_rebate); the rebate, in
\* cents, is compared and subtracted in thousandths of a cent
final_tax(tax_before_rebates, rebate) ==
    IF tax_before_rebates \div 1000 >= rebate
    THEN tax_before_rebates - rebate * 1000
    ELSE 0

\* _get_marginal_rate, as a percentage times ten
get_marginal_rate(config, annual_income) ==
    LET brackets == get_tax_brackets(config)
    IN  IF \E n \in DOMAIN brackets : annual_income <= brackets[n].limit
        THEN brackets[CHOOSE n \in DOMAIN brackets :
                          /\ annual_income <= brackets[n].limit
                          /\ \A j \in 1..(n - 1) : annual_income > brackets[j].limit].rate
        ELSE brackets[Len(brackets)].rate

\* _calculate_annual_tax_impl: the error raised or the dictionary
\* returned, effective_rate (annual_tax / annual_income * 100) left out
calculate_annual_tax_impl(config, annual_income, age_category) ==
    LET validated == validate_financial_input(annual_income)
    IN  IF validated.raised THEN validated
        ELSE LET tax_before_rebates ==
                     brackets_loop(get_tax_brackets(config), validated.value, 0, 0)
                 rebate == total_rebate(config, age_category)
             IN  [raised |-> FALSE,
                  annual_income |-> validated.value,
                  tax_before_rebates |-> tax_before_rebates,
                  total_rebate |-> rebate,
                  annual_tax |-> final_tax(tax_before_rebates, rebate),
                  marginal_rate |-> get_marginal_rate(config, validated.value)]

\* Configurations with low bracket limits: one with an open top bracket, one
\* whose rates fall and whose last bracket is closed and which names one
\* rebate only.
ConfigLow ==
    WithChecksum([default_2025_config EXCEPT
        !.version = "2026.2.0",
        !.tax_brackets = <<TaxBracket(0, 1000, 180), TaxBracket(1000, 2000, 260),
                           TaxBracket(2000, None, 450)>>,
        !.tax_rebates = <<TaxRebate("Primary Rebate", 100, "under_65"),
                          TaxRebate("Secondary Rebate", 40, "65_to_74"),
                          TaxRebate("Tertiary Rebate", 20, "75_plus")>>])

ConfigClosed ==
    WithChecksum([default_2025_config EXCEPT
        !.version = "2026.3.0",
        !.tax_brackets = <<TaxBracket(0, 1000, 260), TaxBracket(1000, 2000, 180)>>,
        !.tax_rebates = <<TaxRebate("Primary Rebate", 100, "under_65")>>])

TaxFiles == {NoFile, FileOf(to_dict(ConfigLow)), FileOf(to_dict(ConfigClosed))}

Incomes == {0, 1, 556, 999, 1000, 1001, 2000, 2001, 3000}
Amounts ==
    {Number(v) : v \in Incomes} \cup {Number(0 - 1000), NoneValue}
        \cup {StrValue(t) : t \in {"", "   ", "abc", "10.00", "-10.00"}}

\* _get_current_config on the global rate_engine: None when
\* get_current_rates raises
get_current_config ==
    LET r == get_current_rates(current_config["rate_engine"], cache, files.current)
    IN  [config |-> IF r.raised THEN NoConfig ELSE r.memo,
         memo |-> r.memo, cache |-> r.cache]

\* Two calls that can be compared: both returned, under one configuration
\* and one age category
Comparable(earlier, later) ==
    /\ earlier.fn = later.fn
    /\ ~earlier.outcome.raised /\ ~later.outcome.raised
    /\ earlier.config = later.config
    /\ earlier.age_category = later.age_category

\* calculate_annual_tax; the call before it is kept beside it when the two
\* can be compared
CalculateAnnualTax(annual_income, age_category) ==
    LET c == get_current_config
        this == [fn |-> "calculate_annual_tax", amount |-> annual_income,
                 age_category |-> age_category, config |-> c.config,
                 outcome |-> calculate_annual_tax_impl(c.config, annual_income,
                                                       age_category)]
    IN  /\ calc' = IF calc # <<>> /\ Comparable(calc[Len(calc)], this)
                   THEN <<calc[Len(calc)], this>>
                   ELSE <<this>>
        /\ cache' = c.cache
        /\ current_config' = [current_config EXCEPT !["rate_engine"] = c.memo]
        /\ lastRead' = NoRead
        /\ UNCHANGED <<now, ticks, files, pc, job, result, started, published,
                       cbVars, rlVars, ffVars, engVars, ffObs, wrapped, slo, race>>

NextTax ==
    \/ \E f \in TaxFiles : PutCurrentFile(f)
    \/ PutCachedEntry(MalformedDict)
    \/ RateEngine_init("rate_engine")
    \/ \E annual_income \in {Number(v) : v \in Incomes \cup {0 - 1000}},
           age_category \in AgeCategories :
           CalculateAnnualTax(annual_income, age_category)

SpecTax == Init /\ [][NextTax]_vars

\* What a call that consults the rate engine leaves behind
ConsultsConfig(c) ==
    /\ cache' = c.cache
    /\ current_config' = [current_config EXCEPT !["rate_engine"] = c.memo]
    /\ lastRead' = NoRead
    /\ UNCHANGED <<now, ticks, files, pc, job, result, started, published,
                   cbVars, rlVars, ffVars, engVars, ffObs, wrapped, slo, race>>

\* f"R{x:,.2f}" of an amount of so many cents and thousandths of a cent:
\* the cents it shows, rounded half to even
money_format(cents, rest) ==
    [format |-> "R{:,.2f}",
     cents |-> IF rest > 500 \/ (rest = 500 /\ cents % 2 = 1)
               THEN cents + 1 ELSE cents]

\* get_tax_breakdown: the totals of the dictionary returned (the lines per
\* bracket and effective_rate left out)
get_tax_breakdown(config, annual_income, age_category) ==
    LET converted == Decimal_of_str(annual_income)
    IN  IF converted.raised THEN converted
        ELSE LET total_tax ==
                     brackets_loop(get_tax_brackets(config), converted.value, 0, 0)
                 rebate == total_rebate(config, age_category)
                 final == final_tax(total_tax, rebate)
             IN  [raised |-> FALSE,
                  total_before_rebates |-> money_format(total_tax \div 1000,
                                                        total_tax % 1000),
                  total_rebate |-> money_format(rebate, 0),
                  final_tax |-> money_format(final \div 1000, final % 1000)]

\* The UIF_RATE and UIF_MONTHLY_CAP class properties
UIF_RATE(config) == IF config.loaded THEN config.config.uif_rate ELSE FALLBACK_UIF_RATE
UIF_MONTHLY_CAP(config) ==
    IF config.loaded THEN config.config.uif_monthly_cap ELSE FALLBACK_UIF_MONTHLY_CAP

\* calculate_uif, in thousandths of a cent (on an interpreter where a
\* classmethod can wrap a property)
calculate_uif(config, monthly_gross) ==
    LET converted == Decimal_of_str(monthly_gross)
    IN  IF converted.raised THEN converted
        ELSE Returns(Min(converted.value * UIF_RATE(config),
                         UIF_MONTHLY_CAP(config) * 1000))

\* Decimal expressions that are not evaluated
Times(left, right) == [op |-> "*", left |-> left, right |-> right]
Over(left, right) == [op |-> "/", left |-> left, right |-> right]
WEEKS_PER_MONTH == Over(52, 12)
MONTHS_PER_YEAR == 12
DAYS_PER_WEEK == 5
hours_per_week == 40
Periods == {"monthly", "annually", "weekly", "daily", "hourly", "fortnightly"}

\* PayRateConverter.to_monthly
to_monthly(amount, period) ==
    LET converted == Decimal_of_str(amount)
    IN  IF converted.raised THEN converted
        ELSE IF period = "monthly" THEN Returns(converted.value)
        ELSE IF period = "annually" THEN Returns(Over(converted.value, MONTHS_PER_YEAR))
        ELSE IF period = "weekly" THEN Returns(Times(converted.value, WEEKS_PER_MONTH))
        ELSE IF period = "daily"
        THEN Returns(Times(Times(converted.value, DAYS_PER_WEEK), WEEKS_PER_MONTH))
        ELSE IF period = "hourly"
        THEN Returns(Times(converted.value, Times(hours_per_week, WEEKS_PER_MONTH)))
        ELSE Raises("ValueError")

\* PayRateConverter.from_monthly
from_monthly(monthly_amount, target_period) ==
    LET converted == Decimal_of_str(monthly_amount)
    IN  IF converted.raised THEN converted
        ELSE IF target_period = "monthly" THEN Returns(converted.value)
        ELSE IF target_period = "annually"
        THEN Returns(converted.value * MONTHS_PER_YEAR)
        ELSE IF target_period = "weekly" THEN Returns(Over(converted.value, WEEKS_PER_MONTH))
        ELSE IF target_period = "daily"
        THEN Returns(Over(converted.value, Times(DAYS_PER_WEEK, WEEKS_PER_MONTH)))
        ELSE IF target_period = "hourly"
        THEN Returns(Over(converted.value, Times(hours_per_week, WEEKS_PER_MONTH)))
        ELSE Raises("ValueError")

\* calculate_net_salary without medical credit: the error raised, or the
\* annual figures and the UIF of the dictionary returned (the monthly
\* figures, which divide by 12 and are quantized, left out).  The pension
\* percentages used are zero or rejected.
calculate_net_salary(config, gross_monthly, pension_percentage, age_category) ==
    LET gross == validate_financial_input(gross_monthly)
        pension == validate_financial_input(pension_percentage)
    IN  IF gross.raised THEN gross
        ELSE IF pension.raised THEN pension
        ELSE LET gross_annual == gross.value * 12
                 pension_monthly == (gross.value * Min(pension.value, 2750)) \div 10000
                 taxable_annual == gross_annual - pension_monthly * 12
                 tax_calc == calculate_annual_tax_impl(config, Number(taxable_annual),
                                                       age_category)
                 uif_monthly == calculate_uif(config, Number(gross.value))
             IN  [raised |-> FALSE,
                  gross_annual |-> gross_annual,
                  taxable_annual |-> taxable_annual,
                  annual_tax |-> tax_calc.annual_tax,
                  marginal_rate |-> tax_calc.marginal_rate,
                  uif_monthly |-> uif_monthly.value]

GetTaxBreakdown(annual_income, age_category) ==
    LET c == get_current_config
    IN  /\ calc' = <<[fn |-> "get_tax_breakdown", amount |-> annual_income,
                      outcome |-> get_tax_breakdown(c.config, annual_income,
                                                    age_category)]>>
        /\ ConsultsConfig(c)

CalculateUif(monthly_gross) ==
    LET c == get_current_config
    IN  /\ calc' = <<[fn |-> "calculate_uif", amount |-> monthly_gross,
                      outcome |-> calculate_uif(c.config, monthly_gross)]>>
        /\ ConsultsConfig(c)

CalculateNetSalary(gross_monthly, pension_percentage, age_category) ==
    LET c == get_current_config
    IN  /\ calc' = <<[fn |-> "calculate_net_salary", amount |-> gross_monthly,
                      pension_percentage |-> pension_percentage,
                      outcome |-> calculate_net_salary(c.config, gross_monthly,
                                                       pension_percentage,
                                                       age_category)]>>
        /\ ConsultsConfig(c)

ToMonthly(amount, period) ==
    /\ calc' = <<[fn |-> "to_monthly", amount |-> amount, period |-> period,
                  outcome |-> to_monthly(amount, period)]>>
    /\ UNCHANGED <<now, ticks, cache, cbVars, rlVars, ratesVars, ffVars, engVars,
                   ffObs, wrapped, slo, race>>

FromMonthly(monthly_amount, target_period) ==
    /\ calc' = <<[fn |-> "from_monthly", amount |-> monthly_amount,
                  period |-> target_period,
                  outcome |-> from_monthly(monthly_amount, target_period)]>>
    /\ UNCHANGED <<now, ticks, cache, cbVars, rlVars, ratesVars, ffVars, engVars,
                   ffObs, wrapped, slo, race>>

NextInputs ==
    \/ \E f \in {NoFile, FileOf(to_dict(ConfigLow))} : PutCurrentFile(f)
    \/ RateEngine_init("rate_engine")
    \/ \E amount \in Amounts :
           \/ CalculateAnnualTax(amount, "under_65")
           \/ \E age_category \in {"under_65", "75_plus"} :
                  GetTaxBreakdown(amount, age_category)
           \/ CalculateUif(amount)
           \/ \E pension_percentage \in {Number(0), NoneValue, Number(0 - 1000)} :
                  CalculateNetSalary(amount, pension_percentage, "under_65")
           \/ \E period \in Periods : ToMonthly(amount, period)
           \/ \E period \in Periods : FromMonthly(amount, period)

SpecInputs == Init /\ [][NextInputs]_vars

(***************************************************************************)
(* observability.py: SLOMonitor                                            *)
(***************************************************************************)
\* A burn rate: the exact quotient over/under and the sign of the rounding
\* error of the quotient computed.
BurnRate(over, under, rounding) == [over |-> over, under |-> under, rounding |-> rounding]

\* burn_rate < bound, bound being num/den
burn_below(burn_rate, num, den) ==
    \/ burn_rate.over * den < num * burn_rate.under
    \/ burn_rate.over * den = num * burn_rate.under /\ burn_rate.rounding < 0

\* The burn rate of check_slos for one objective
burn_rate_of(slo_name, current) ==
    LET target == slo_target[slo_name]
        error_budget == slo_error_budget[slo_name]
        difference == IF slo_name = "latency_p95"
                      THEN current.units - target
                      ELSE target - current.units
    IN  IF error_budget > 0
        THEN IF difference < 0 \/ (difference = 0 /\ current.rounding < 0)
             THEN BurnRate(0, 1, 0)
             ELSE BurnRate(difference, error_budget, current.rounding)
        ELSE BurnRate(0, 1, 0)

\* check_slos: current, target and status of every objective
\* (error_budget_remaining left out)
check_slos(current) ==
    [slo_name \in SLONames |->
        LET burn_rate == burn_rate_of(slo_name, current[slo_name])
        IN  [current |-> current[slo_name],
             target |-> slo_target[slo_name],
             burn_rate |-> burn_rate,
             status |-> IF burn_below(burn_rate, 1, 2) THEN "OK"
                        ELSE IF burn_below(burn_rate, 1, 1) THEN "WARNING"
                        ELSE "CRITICAL"]]

\* Variant: only a CRITICAL objective alerts.
should_alert_critical_only(current, slo_name) ==
    IF slo_name \notin SLONames THEN FALSE
    ELSE check_slos(current)[slo_name].status \in {"CRITICAL"}

\* should_alert
should_alert(current, slo_name) ==
    IF slo_name \notin SLONames THEN FALSE
    ELSE check_slos(current)[slo_name].status \in {"WARNING", "CRITICAL"}

\* The measurements tried for an objective: none of the budget burnt, just
\* under and at half of it, just under and at all of it, and beyond; at the
\* two thresholds the computed quotient may round either way.
Measurements(slo_name) ==
    LET target == slo_target[slo_name]
        error_budget == slo_error_budget[slo_name]
        At(burnt) == IF slo_name = "latency_p95" THEN target + burnt ELSE target - burnt
    IN  {slo_current[slo_name]}
            \cup {Measured(At(burnt), 0) :
                      burnt \in {error_budget \div 2 - 1, error_budget - 1,
                                 2 * error_budget}}
            \cup {Measured(At(burnt), rounding) :
                      burnt \in {error_budget \div 2, error_budget},
                      rounding \in {0 - 1, 0, 1}}

\* The collector stores a measurement in slo_monitor.slos[slo_name]['current'].
Measure(slo_name, measurement) ==
    /\ slo' = [current |-> [slo.current EXCEPT ![slo_name] = measurement],
               asked |-> NoAlertAsked]
    /\ UNCHANGED <<now, ticks, cache, cbVars, rlVars, ratesVars, ffVars, engVars,
                   ffObs, wrapped, calc, race>>

AlertNames == SLONames \cup {"throughput"}

\* should_alert(slo_name); the status that check_slos reports is kept
\* beside what it returned
ShouldAlert(slo_name) ==
    /\ slo' = [slo EXCEPT !.asked =
                  [called |-> TRUE, slo_name |-> slo_name,
                   status |-> check_slos(slo.current),
                   returned |-> should_alert(slo.current, slo_name)]]
    /\ UNCHANGED <<now, ticks, cache, cbVars, rlVars, ratesVars, ffVars, engVars,
                   ffObs, wrapped, calc, race>>

NextSLO ==
    \/ \E slo_name \in SLONames :
           \E measurement \in Measurements(slo_name) : Measure(slo_name, measurement)
    \/ \E slo_name \in AlertNames : ShouldAlert(slo_name)

SpecSLO == Init /\ [][NextSLO]_vars

(***************************************************************************)
(* CircuitBreaker.call run by several processes, one step per cache access *)
(***************************************************************************)
\* One step of w: to the position to, having read state and count, leaving
\* the cache c.
RaceStep(w, to, state, count, c) ==
    /\ race' = [race EXCEPT
                   !.pc[w] = to, !.state[w] = state, !.count[w] = count,
                   !.transition =
                       IF c[KEY_STATE] # cache[KEY_STATE]
                       THEN [made |-> TRUE, by |-> w, read |-> race.state[w],
                             from |-> get_state(cache), to |-> get_state(c)]
                       ELSE NoTransition]
    /\ cache' = c
    /\ UNCHANGED <<now, ticks, cbVars, rlVars, ratesVars, ffVars, engVars,
                   ffObs, wrapped, calc, slo>>

\* The handler the function's outcome leads to
AfterFunc(w) == IF race.ok[w] THEN "handle_success" ELSE "handle_failure"

\* A process calls CircuitBreaker.call with a function that returns (ok) or
\* raises.
BeginCall(w, ok) ==
    /\ race.pc[w] = "idle"
    /\ race.started < MaxRaceCalls
    /\ race' = [race EXCEPT !.pc[w] = "call", !.ok[w] = ok,
                            !.started = race.started + 1,
                            !.transition = NoTransition]
    /\ UNCHANGED <<now, ticks, cache, cbVars, rlVars, ratesVars, ffVars, engVars,
                   ffObs, wrapped, calc, slo>>

\* call: state = self._get_state(); when it is not OPEN the function runs
Call_GetState(w) ==
    /\ race.pc[w] = "call"
    /\ LET state == get_state(cache)
       IN  RaceStep(w, IF state = OPEN THEN "call_state_data" ELSE AfterFunc(w),
                    state, race.count[w], cache)

\* call: state_data = cache.get(...) and the recovery check; the call ends
\* here with CircuitBreakerOpenError when the timeout has not passed
Call_GetStateData(w) ==
    /\ race.pc[w] = "call_state_data"
    /\ RaceStep(w, IF recovery_elapsed(cache) THEN "call_set_half_open" ELSE "idle",
                race.state[w], race.count[w], cache)

\* call: self._set_state(CircuitState.HALF_OPEN)
Call_SetHalfOpen(w) ==
    /\ race.pc[w] = "call_set_half_open"
    /\ RaceStep(w, "call_reset_successes", race.state[w], race.count[w],
                set_state(cache, HALF_OPEN, "none"))

\* call: self._reset_successes(), then the function runs
Call_ResetSuccesses(w) ==
    /\ race.pc[w] = "call_reset_successes"
    /\ RaceStep(w, AfterFunc(w), race.state[w], race.count[w], reset_successes(cache))

\* _handle_success: state = self._get_state()
HandleSuccess_GetState(w) ==
    /\ race.pc[w] = "handle_success"
    /\ LET state == get_state(cache)
       IN  RaceStep(w, IF state = HALF_OPEN THEN "increment_successes"
                       ELSE IF state = CLOSED THEN "reset_failures_closed"
                       ELSE "idle",
                    state, race.count[w], cache)

\* _increment_successes: current = self._get_success_count()
IncrementSuccesses_Get(w) ==
    /\ race.pc[w] = "increment_successes"
    /\ RaceStep(w, "increment_successes_set", race.state[w],
                get_success_count(cache), cache)

\* _increment_successes: cache.set(..., current + 1, 300)
IncrementSuccesses_Set(w) ==
    /\ race.pc[w] = "increment_successes_set"
    /\ RaceStep(w, "success_count", race.state[w], race.count[w],
                CacheSet(cache, KEY_SUCCESSES, race.count[w] + 1, SUCCESSES_TTL))

\* _handle_success: success_count = self._get_success_count() and the test
HandleSuccess_GetCount(w) ==
    /\ race.pc[w] = "success_count"
    /\ LET success_count == get_success_count(cache)
       IN  RaceStep(w, IF success_count >= success_threshold THEN "set_closed"
                       ELSE "idle",
                    race.state[w], success_count, cache)

\* _handle_success: self._set_state(CircuitState.CLOSED)
HandleSuccess_SetClosed(w) ==
    /\ race.pc[w] = "set_closed"
    /\ RaceStep(w, "reset_failures", race.state[w], race.count[w],
                set_state(cache, CLOSED, "none"))

\* _handle_success: self._reset_failures(), on closing and on a CLOSED breaker
HandleSuccess_ResetFailures(w) ==
    /\ race.pc[w] \in {"reset_failures", "reset_failures_closed"}
    /\ RaceStep(w, IF race.pc[w] = "reset_failures" THEN "reset_successes" ELSE "idle",
                race.state[w], race.count[w], reset_failures(cache))

\* _handle_success: self._reset_successes()
HandleSuccess_ResetSuccesses(w) ==
    /\ race.pc[w] = "reset_successes"
    /\ RaceStep(w, "idle", race.state[w], race.count[w], reset_successes(cache))

\* _handle_failure: state = self._get_state()
HandleFailure_GetState(w) ==
    /\ race.pc[w] = "handle_failure"
    /\ LET state == get_state(cache)
       IN  RaceStep(w, IF state = HALF_OPEN THEN "set_open_again"
                       ELSE IF state = CLOSED THEN "increment_failures"
                       ELSE "idle",
                    state, race.count[w], cache)

\* _handle_failure: self._set_state(CircuitState.OPEN, last_error=...), from
\* HALF_OPEN and from CLOSED
HandleFailure_SetOpen(w) ==
    /\ race.pc[w] \in {"set_open_again", "set_open"}
    /\ RaceStep(w, IF race.pc[w] = "set_open_again" THEN "reset_successes_again"
                   ELSE "idle",
                race.state[w], race.count[w], set_state(cache, OPEN, "error"))

\* _handle_failure: self._reset_successes()
HandleFailure_ResetSuccesses(w) ==
    /\ race.pc[w] = "reset_successes_again"
    /\ RaceStep(w, "idle", race.state[w], race.count[w], reset_successes(cache))

\* _increment_failures: current = self._get_failure_count()
IncrementFailures_Get(w) ==
    /\ race.pc[w] = "increment_failures"
    /\ RaceStep(w, "increment_failures_set", race.state[w],
                get_failure_count(cache), cache)

\* _increment_failures: cache.set(..., current + 1, 3600)
IncrementFailures_Set(w) ==
    /\ race.pc[w] = "increment_failures_set"
    /\ RaceStep(w, "failure_count", race.state[w], race.count[w],
                CacheSet(cache, KEY_FAILURES, race.count[w] + 1, FAILURES_TTL))

\* _handle_failure: failure_count = self._get_failure_count() and the test
HandleFailure_GetCount(w) ==
    /\ race.pc[w] = "failure_count"
    /\ LET failure_count == get_failure_count(cache)
       IN  RaceStep(w, IF failure_count >= failure_threshold THEN "set_open"
                       ELSE "idle",
                    race.state[w], failure_count, cache)

\* The recovery timeout passes.
RaceTick ==
    /\ ticks < MaxRaceTicks
    /\ ticks' = ticks + 1
    /\ now' = now + recovery_timeout + 1
    /\ cache' = Expire(cache, now + recovery_timeout + 1)
    /\ race' = [race EXCEPT !.transition = NoTransition]
    /\ UNCHANGED <<cbVars, rlVars, ratesVars, ffVars, engVars, ffObs, wrapped,
                   calc, slo>>

NextRace ==
    \/ \E w \in Workers, ok \in BOOLEAN : BeginCall(w, ok)
    \/ \E w \in Workers : Call_GetState(w)
    \/ \E w \in Workers : Call_GetStateData(w)
    \/ \E w \in Workers : Call_SetHalfOpen(w)
    \/ \E w \in Workers : Call_ResetSuccesses(w)
    \/ \E w \in Workers : HandleSuccess_GetState(w)
    \/ \E w \in Workers : IncrementSuccesses_Get(w)
    \/ \E w \in Workers : IncrementSuccesses_Set(w)
    \/ \E w \in Workers : HandleSuccess_GetCount(w)
    \/ \E w \in Workers : HandleSuccess_SetClosed(w)
    \/ \E w \in Workers : HandleSuccess_ResetFailures(w)
    \/ \E w \in Workers : HandleSuccess_ResetSuccesses(w)
    \/ \E w \in Workers : HandleFailure_GetState(w)
    \/ \E w \in Workers : HandleFailure_SetOpen(w)
    \/ \E w \in Workers : HandleFailure_ResetSuccesses(w)
    \/ \E w \in Workers : IncrementFailures_Get(w)
    \/ \E w \in Workers : IncrementFailures_Set(w)
    \/ \E w \in Workers : HandleFailure_GetCount(w)
    \/ RaceTick

SpecRace == Init /\ [][NextRace]_vars

(***************************************************************************)
(* RateLimiter.is_allowed run by several processes: cache.get and          *)
(* cache.set are separate steps                                            *)
(***************************************************************************)
\* is_allowed up to the decision: cache.get, the cleaning and the count.  A
\* refused call returns here; an allowed one goes on to store its buckets.
IsAllowed_Get(w, identifier) ==
    LET cleaned == cleaned_requests(CacheGet(cache, RLKey(identifier), EmptyDict))
        total_requests == SumCounts(cleaned)
        count == IF now \in DOMAIN cleaned THEN cleaned[now] ELSE 0
        added == [t \in DOMAIN cleaned \cup {now} |->
                     IF t = now THEN count + 1 ELSE cleaned[t]]
        in_flight == Cardinality({v \in Workers :
                                      /\ race.limiter[v].pc = "set"
                                      /\ race.limiter[v].identifier = identifier})
    IN  /\ race.limiter[w].pc = "idle"
        /\ Len(history[identifier]) + in_flight < MaxCalls
        /\ IF total_requests >= max_requests
           THEN /\ history' = [history EXCEPT ![identifier] =
                                  Append(@, [at |-> now, allowed |-> FALSE])]
                /\ UNCHANGED race
           ELSE /\ race' = [race EXCEPT !.limiter[w] =
                               [pc |-> "set", identifier |-> identifier,
                                current_time |-> now, cleaned_requests |-> added]]
                /\ UNCHANGED history
        /\ UNCHANGED <<now, ticks, cache, cbVars, ratesVars, ffVars, engVars,
                       ffObs, wrapped, calc, slo>>

\* cache.set(key, cleaned_requests, self.window_seconds + 60); return True
IsAllowed_Set(w) ==
    LET mine == race.limiter[w]
    IN  /\ mine.pc = "set"
        /\ cache' = CacheSet(cache, RLKey(mine.identifier), mine.cleaned_requests,
                             window_seconds + RL_TTL_MARGIN)
        /\ history' = [history EXCEPT ![mine.identifier] =
                           Append(@, [at |-> mine.current_time, allowed |-> TRUE])]
        /\ race' = [race EXCEPT !.limiter[w] = NoLimiterCall]
        /\ UNCHANGED <<now, ticks, cbVars, ratesVars, ffVars, engVars,
                       ffObs, wrapped, calc, slo>>

\* A second passes, while calls may be under way.
LimiterTick ==
    /\ ticks < MaxRaceTicks
    /\ RLTick(1)
    /\ UNCHANGED race

NextLimiterRace ==
    \/ \E w \in Workers, i \in Identifiers : IsAllowed_Get(w, i)
    \/ \E w \in Workers : IsAllowed_Set(w)
    \/ LimiterTick

SpecLimiterRace == Init /\ [][NextLimiterRace]_vars

(***************************************************************************)
(* save_configuration called again with a version that is already on disk:  *)
(* the file name is rates-{config.version}.json whatever the content.       *)
(***************************************************************************)
\* Another configuration carrying the version string of Config2026.
Config2026Revised == WithChecksum([Config2026 EXCEPT !.uif_rate = 20])

ResaveInputs == {Config2026, Config2026Revised, Config2027}

NextResave ==
    \/ \E config \in ResaveInputs, make_current \in BOOLEAN :
           SaveConfiguration(config, make_current)
    \/ \E ok \in BOOLEAN : OpenVersionFile(ok)
    \/ \E ok \in BOOLEAN : DumpVersionFile(ok)
    \/ \E ok \in BOOLEAN : OpenCurrentFile(ok)
    \/ \E ok \in BOOLEAN : DumpCurrentFile(ok)
    \/ InvalidateCurrent

SpecResave == Init /\ [][NextResave]_vars

(***************************************************************************)
(* record_canary_result called one call after another, with the calls made  *)
(* kept in calc.                                                            *)
(***************************************************************************)
MaxCanaryCalls == 4

CanaryFlags == {"new_tax_engine", "enhanced_error_handling"}

CanaryCall(flag_name, success) ==
    /\ Constructed("web")
    /\ Len(calc) < MaxCanaryCalls
    /\ cache' = record_canary_result(cache, flag_name, success)
    /\ calc' = Append(calc, [flag_name |-> flag_name, success |-> success, at |-> now])
    /\ UNCHANGED <<now, ticks, cbVars, rlVars, ratesVars, ffVars, engVars, ffObs,
                   wrapped, slo, race>>

NextCanary ==
    \/ FeatureFlagManager_init("web") /\ UNCHANGED evalVars
    \/ \E f \in CanaryFlags, success \in BOOLEAN : CanaryCall(f, success)
    \/ \E d \in FFTickSteps : FFTick(d) /\ UNCHANGED evalVars

SpecCanary == Init /\ [][NextCanary]_vars

(***************************************************************************)
(* utils.py: calculate_medical_tax_credit, called while configurations are  *)
(* saved as current.  Amounts are in cents.                                *)
(***************************************************************************)
FALLBACK_MEDICAL_CREDIT_MAIN == 36400
FALLBACK_MEDICAL_CREDIT_DEPENDENT == 36400
FALLBACK_MEDICAL_CREDIT_ADDITIONAL == 24600

\* Class attributes, bound when the class body runs
MEDICAL_CREDIT_MAIN == FALLBACK_MEDICAL_CREDIT_MAIN
MEDICAL_CREDIT_DEPENDENT == FALLBACK_MEDICAL_CREDIT_DEPENDENT
MEDICAL_CREDIT_ADDITIONAL == FALLBACK_MEDICAL_CREDIT_ADDITIONAL

calculate_medical_tax_credit(members) ==
    IF members <= 0 THEN 0
    ELSE MEDICAL_CREDIT_MAIN
           + (IF members > 1 THEN MEDICAL_CREDIT_DEPENDENT ELSE 0)
           + (IF members > 2 THEN (members - 2) * MEDICAL_CREDIT_ADDITIONAL ELSE 0)

\* A configuration with other medical credits than the fallback ones.
ConfigMedical ==
    WithChecksum([Config2027 EXCEPT
        !.medical_credit_main = 40000,
        !.medical_credit_first_dependent = 38000,
        !.medical_credit_additional_dependent = 26000])

MedicalInputs == {Config2026, ConfigMedical}
Members == {0 - 1, 0, 1, 2, 3, 5}

\* calculate_medical_tax_credit; beside the call, the configuration the
\* rate engine would have returned when it was made
CalculateMedicalTaxCredit(members) ==
    /\ calc' = <<[fn |-> "calculate_medical_tax_credit", members |-> members,
                  current |-> get_current_config.config,
                  outcome |-> calculate_medical_tax_credit(members)]>>
    /\ UNCHANGED <<now, ticks, cache, cbVars, rlVars, ratesVars, ffVars, engVars,
                   ffObs, wrapped, slo, race>>

NextMedical ==
    \/ \E config \in MedicalInputs, make_current \in BOOLEAN :
           SaveConfiguration(config, make_current)
    \/ \E ok \in BOOLEAN : OpenVersionFile(ok)
    \/ \E ok \in BOOLEAN : DumpVersionFile(ok)
    \/ \E ok \in BOOLEAN : OpenCurrentFile(ok)
    \/ \E ok \in BOOLEAN : DumpCurrentFile(ok)
    \/ InvalidateCurrent
    \/ \E members \in Members : CalculateMedicalTaxCredit(members)

SpecMedical == Init /\ [][NextMedical]_vars

(***************************************************************************)
(* _validate_configuration over configurations of one or two brackets,      *)
(* one rebate and a UIF rate.                                               *)
(***************************************************************************)
BracketLimits == {0 - 1, 0, 1000}
BracketTops == {None, 0, 1000, 2000}
BracketRates == {0 - 1, MAX_TAX_RATE, MAX_TAX_RATE + 1}
RebateAmounts == {0 - 1, 0}
UifRates == {0 - 1, MAX_UIF_RATE, MAX_UIF_RATE + 1}

BracketInputs ==
    {TaxBracket(lo, hi, rate) : lo \in BracketLimits, hi \in BracketTops,
                                rate \in BracketRates}

ValidateInputs ==
    {[default_2025_config EXCEPT
          !.tax_brackets = brackets,
          !.tax_rebates = <<TaxRebate("Primary Rebate", amount, "under_65")>>,
          !.uif_rate = uif_rate] :
        brackets \in {<<>>} \cup {<<b>> : b \in BracketInputs}
                        \cup {<<a, b>> : a, b \in {c \in BracketInputs :
                                                      c.rate = MAX_TAX_RATE}},
        amount \in RebateAmounts, uif_rate \in UifRates}

\* validation = self._validate_configuration(new_config)
ValidateConfiguration(config) ==
    /\ calc' = <<[fn |-> "_validate_configuration", config |-> config,
                  outcome |-> validate_configuration(config)]>>
    /\ UNCHANGED <<now, ticks, cache, cbVars, rlVars, ratesVars, ffVars, engVars,
                   ffObs, wrapped, slo, race>>

NextValidate == \E config \in ValidateInputs : ValidateConfiguration(config)

SpecValidate == Init /\ [][NextValidate]_vars

(***************************************************************************)
(* Properties of save_configuration and verify_integrity                   *)
(***************************************************************************)
\* C11: when save_configuration has returned False the version records and
\* current.json are as they were when it was called, and while a publish is
\* in progress current.json reads as the complete old or the complete new
\* configuration.
C11_NoPartialUpdate ==
    /\ save.returned = "False" => files = save.before
    /\ (save.pc # "idle" /\ save.make_current)
           => load_current_config(files.current)
                  \in {load_current_config(save.before.current),
                       Loaded(deserialize_config(to_dict(save.config)))}

\* C12: the configuration save_configuration has just saved passes
\* verify_integrity, and a saved configuration one field of which was
\* changed afterwards, the checksum left alone, fails it.
C12_TamperEvident ==
    /\ (save.returned = "True" /\ ~held.saved) => verify_integrity(save.config)
    /\ held.saved => ~verify_integrity(held.config)

\* What get_current_rates on the global rate_engine would return now.
CurrentRates == get_current_rates(current_config["rate_engine"], cache, files.current).memo

\* C13: after a successful save_configuration(cfg, make_current=True)
\* get_current_rates on the same engine returns cfg; no step of a call with
\* make_current=False changes current.json, the cache or what
\* get_current_rates returns, and when that call has returned True the
\* version file holds cfg.
C13_CurrentIffMakeCurrent ==
    /\ [](/\ (save.pc = "idle" /\ save.returned = "True" /\ save.make_current)
                 => CurrentRates = Loaded(save.config)
          /\ (save.pc = "idle" /\ save.returned = "True")
                 => files.versions[save.config.version] = FileOf(to_dict(save.config)))
    /\ [][(save' # save /\ ~save'.make_current)
             => /\ files'.current = files.current
                /\ cache' = cache
                /\ current_config' = current_config
                /\ CurrentRates' = CurrentRates]_vars

\* A second call, with make_current=False, has returned True while
\* current.json holds the configuration an earlier make_current=True call
\* published, and the engine has since been read and returned the earlier one.
C13_Witness ==
    /\ save.pc = "idle" /\ save.returned = "True" /\ ~save.make_current
    /\ load_current_config(files.current).loaded
    /\ load_current_config(files.current).config.version # save.config.version
    /\ lastRead.outcome = "returned" /\ lastRead.engine = "rate_engine"
    /\ lastRead.version = lastRead.stored
    /\ lastRead.version # save.config.version

(***************************************************************************)
(* Properties of update_rates with verify_only                             *)
(***************************************************************************)
\* C14: no step of an update_rates call with verify_only=True changes a
\* version record, current.json, the cached current configuration or an
\* engine's loaded configuration; the call that took the lock returns, with
\* success if its data is valid, and the lock is not held when it has returned.
C14_VerifyOnlyPublishesNothing ==
    [][\A u \in Updaters :
          (pc'[u] # pc[u] /\ pc[u] # "idle" /\ job[u].verify_only)
              => /\ files' = files
                 /\ cache'[KEY_CURRENT] = cache[KEY_CURRENT]
                 /\ current_config' = current_config
                 /\ published' = published
                 /\ pc[u] = "release"
                        => /\ result'[u].done
                           /\ Acceptable(job[u].data) => result'[u].success
                           /\ ~CacheGet(cache', KEY_LOCK, FALSE)]_vars

\* A verify-only call with a valid configuration that is not the current one
\* has returned success, and the lock is free.
C14_Witness ==
    \E u \in Updaters :
        /\ result[u].done /\ result[u].success
        /\ pc[u] = "idle" /\ started = MaxUpdates
        /\ result[u].data = to_dict(Config2026)
        /\ files.current.exists /\ files.current.json
        /\ files.current.text.body.version # "2026.1.0"
        /\ ~files.versions["2026.1.0"].exists
        /\ ~CacheGet(cache, KEY_LOCK, FALSE)

(***************************************************************************)
(* Properties of is_enabled                                                *)
(***************************************************************************)
\* C15: is_enabled returns False for an unknown flag and for a flag with
\* enabled=False whatever else the flag holds; for an enabled flag it
\* returns False under strategy OFF and True under strategy ON, for every
\* user and for no user.
C15_DisabledOffOn ==
    asked.called =>
        /\ ~asked.known => ~asked.result
        /\ (asked.known /\ ~asked.flag.enabled) => ~asked.result
        /\ (asked.known /\ asked.flag.enabled /\ asked.flag.strategy = OFF)
               => ~asked.result
        /\ (asked.known /\ asked.flag.enabled /\ asked.flag.strategy = ON)
               => asked.result

\* A flag with enabled=False and strategy ON was asked about.
C15_Witness ==
    /\ asked.called /\ asked.known
    /\ ~asked.flag.enabled /\ asked.flag.strategy = ON
    /\ ~asked.result

\* C17: under strategy CANARY is_enabled returns True only for a user whose
\* canary bucket is within canary_percentage while the success rate is at
\* least canary_success_threshold; with the rate below the threshold it
\* returns False for every user.
C17_CanaryFailSafe ==
    (asked.called /\ asked.known /\ asked.flag.enabled /\ asked.flag.strategy = CANARY)
        => /\ asked.result
                => /\ asked.user # None
                   /\ user_percentage[ToString(asked.user) \o ":canary:" \o asked.flag_name]
                          <= asked.flag.canary_percentage
                   /\ asked.success_rate >= asked.flag.canary_success_threshold
           /\ asked.success_rate < asked.flag.canary_success_threshold
                => ~asked.result

\* A user inside the canary bucket was refused because the success rate is
\* below the threshold.
C17_Witness ==
    /\ asked.called /\ asked.known
    /\ asked.flag.enabled /\ asked.flag.strategy = CANARY
    /\ asked.user # None
    /\ user_percentage[ToString(asked.user) \o ":canary:" \o asked.flag_name]
           <= asked.flag.canary_percentage
    /\ asked.success_rate < asked.flag.canary_success_threshold
    /\ ~asked.result

\* C18: under strategy SHADOW is_enabled returns False for every user.
C18_ShadowNeverLive ==
    (asked.called /\ asked.known /\ asked.flag.enabled /\ asked.flag.strategy = SHADOW)
        => ~asked.result

\* A user inside the shadow bucket was asked about and is tracked for shadow
\* runs.
C18_Witness ==
    /\ asked.called /\ asked.known
    /\ asked.flag.enabled /\ asked.flag.strategy = SHADOW
    /\ asked.user # None
    /\ Live(cache, ShadowKey(asked.flag_name, asked.user))
    /\ ~asked.result

\* C16: two is_enabled calls under the percentage strategy with the same
\* user, flag name and percentage return the same boolean, whichever
\* manager answers, whether it was restarted and whatever the time.
C16_PercentageIsStable ==
    (/\ IsPercentageCall(asked) /\ IsPercentageCall(first)
     /\ asked.user = first.user
     /\ asked.flag_name = first.flag_name
     /\ asked.flag.percentage = first.flag.percentage)
        => asked.result = first.result

\* The same user was let in by both managers for a flag moved to the
\* percentage strategy, the second call at a later time.
C16_Witness ==
    /\ IsPercentageCall(asked) /\ IsPercentageCall(first)
    /\ asked.manager # first.manager
    /\ asked.user = first.user
    /\ asked.flag_name = "new_tax_engine" /\ first.flag_name = "new_tax_engine"
    /\ asked.flag.percentage = first.flag.percentage
    /\ asked.result /\ first.result
    /\ now > 0

(***************************************************************************)
(* Properties of the administrative operations on flags                    *)
(***************************************************************************)
\* C19: promote_canary on a canary flag whose success rate is at least
\* canary_success_threshold leaves the flag with strategy ON and enabled;
\* on a flag that is unknown, not a canary or below the threshold it leaves
\* the flag as it was.
C19_PromotionFollowsHealth ==
    promotion.called =>
        LET healthy == /\ promotion.known
                       /\ promotion.before.strategy = CANARY
                       /\ promotion.success_rate >= promotion.before.canary_success_threshold
        IN  /\ healthy => /\ promotion.outcome = "promoted"
                          /\ flags["command"][promotion.flag_name].strategy = ON
                          /\ flags["command"][promotion.flag_name].enabled
            /\ ~healthy => /\ promotion.outcome # "promoted"
                           /\ promotion.known
                                  => flags["command"][promotion.flag_name] = promotion.before

\* C20: once the flag cache TTL has passed since the command process
\* changed a flag, is_enabled on a manager that was already running then
\* evaluates the flag as the command left it.
C20_MutationReachesRunningManagers ==
    (/\ asked.called /\ mutation.made
     /\ asked.manager \in mutation.running
     /\ asked.flag_name = mutation.flag_name
     /\ now >= mutation.at + FLAGS_TIMEOUT)
        => asked.flag = mutation.flag

(***************************************************************************)
(* Properties of shadow_mode                                               *)
(***************************************************************************)
\* C21: a function wrapped by shadow_mode gives its caller what the primary
\* function returned, or the exception the primary raised, whether or not
\* the shadow function ran and whatever it returned or raised.
C21_ShadowNeverChangesResult ==
    wrapped.called => wrapped.returned = wrapped.primary

\* The shadow function ran for a tracked user and returned something else
\* than the primary did.
C21_Witness ==
    /\ wrapped.called /\ wrapped.ran_shadow
    /\ ~wrapped.primary.raised /\ ~wrapped.shadow.raised
    /\ wrapped.shadow # wrapped.primary
    /\ wrapped.returned = wrapped.primary

(***************************************************************************)
(* Properties of SARSTaxCalculator                                         *)
(***************************************************************************)
\* A calculate_annual_tax call that returned a result
Computed(made) == made.fn = "calculate_annual_tax" /\ ~made.outcome.raised

\* C22: of two calculate_annual_tax calls under the same configuration and
\* age category, the one with the higher income has at least the annual tax
\* of the other.
C22_TaxMonotone ==
    (/\ Len(calc) = 2 /\ Computed(calc[1]) /\ Computed(calc[2])
     /\ calc[1].config = calc[2].config
     /\ calc[1].age_category = calc[2].age_category
     /\ calc[2].outcome.annual_income > calc[1].outcome.annual_income)
        => calc[2].outcome.annual_tax >= calc[1].outcome.annual_tax

\* Two incomes either side of a bracket limit, both taxed, under one
\* configuration read from current.json.
C22_Witness ==
    /\ Len(calc) = 2 /\ Computed(calc[1]) /\ Computed(calc[2])
    /\ calc[1].config = calc[2].config
    /\ calc[1].config = Loaded(ConfigClosed)
    /\ calc[1].age_category = calc[2].age_category
    /\ calc[1].outcome.annual_income = 1000
    /\ calc[2].outcome.annual_income = 1001
    /\ calc[1].outcome.annual_tax > 0
    /\ calc[2].outcome.annual_tax > calc[1].outcome.annual_tax

\* The part of income between two limits
Between(income, lower, upper) ==
    IF income <= lower THEN 0 ELSE Min(income, upper) - lower

\* The reference: the sum over the brackets of rate times the part of the
\* income between the previous limit and the bracket's limit.
MarginalTax(brackets, income) ==
    LET part[n \in 0..Len(brackets)] ==
            IF n = 0 THEN 0
            ELSE part[n - 1]
                   + brackets[n].rate
                       * Between(income,
                                 IF n = 1 THEN 0 ELSE brackets[n - 1].limit,
                                 brackets[n].limit)
    IN  part[Len(brackets)]

\* C23: tax_before_rebates is the marginal sum over the brackets, an income
\* at a bracket limit is taxed at the rates of the brackets up to that
\* limit only, and annual_tax is max(0, tax_before_rebates - total_rebate).
C23_MarginalComputation ==
    \A n \in DOMAIN calc :
        Computed(calc[n]) =>
            LET out == calc[n].outcome
                brackets == get_tax_brackets(calc[n].config)
            IN  /\ out.tax_before_rebates = MarginalTax(brackets, out.annual_income)
                /\ \A k \in DOMAIN brackets :
                       out.annual_income = brackets[k].limit
                           => out.tax_before_rebates
                                  = MarginalTax(SubSeq(brackets, 1, k), out.annual_income)
                /\ LET cents == out.tax_before_rebates \div 1000
                   IN  IF cents < out.total_rebate
                       THEN out.annual_tax = 0
                       ELSE /\ out.annual_tax \div 1000 = cents - out.total_rebate
                            /\ out.annual_tax % 1000 = out.tax_before_rebates % 1000

\* An income exactly at the second bracket limit was taxed, and more than
\* the rebate.
C23_Witness ==
    \E n \in DOMAIN calc :
        /\ Computed(calc[n])
        /\ calc[n].config = Loaded(ConfigLow)
        /\ calc[n].outcome.annual_income = 2000
        /\ calc[n].outcome.tax_before_rebates = 1000 * 180 + 1000 * 260
        /\ calc[n].outcome.annual_tax > 0

\* An amount that is None, empty, not numeric or negative
Rejectable(amount) ==
    \/ amount.type = "NoneType"
    \/ amount.type = "str" /\ amount.text \notin DOMAIN NumericStrings
    \/ amount.type = "str" /\ amount.text \in DOMAIN NumericStrings
           /\ NumericStrings[amount.text] < 0
    \/ amount.type = "Decimal" /\ amount.value < 0

\* C24: no entry point (calculate_annual_tax, get_tax_breakdown,
\* calculate_uif, to_monthly, from_monthly, calculate_net_salary) returns a
\* result for an amount that is None, empty, not numeric or negative.
C24_EntryPointsRejectBadAmounts ==
    \A n \in DOMAIN calc : Rejectable(calc[n].amount) => calc[n].outcome.raised

\* The entry points that call validate_financial_input do reject them.
C24_ValidatingEntryPointsReject ==
    \A n \in DOMAIN calc :
        (/\ calc[n].fn \in {"calculate_annual_tax", "calculate_net_salary"}
         /\ Rejectable(calc[n].amount))
            => calc[n].outcome.raised

(***************************************************************************)
(* Properties of SLOMonitor                                                *)
(***************************************************************************)
\* The part of the error budget burnt by a measurement, floored at zero
Burnt(slo_name, units) ==
    LET over == IF slo_name = "latency_p95"
                THEN units - slo_target[slo_name]
                ELSE slo_target[slo_name] - units
    IN  IF over > 0 THEN over ELSE 0

\* The computed burn rate is at least num/den: the exact quotient is above
\* it, or equal to it and not rounded down.
BurnAtLeast(slo_name, measurement, num, den) ==
    LET burnt == Burnt(slo_name, measurement.units)
    IN  \/ burnt * den > num * slo_error_budget[slo_name]
        \/ /\ burnt * den = num * slo_error_budget[slo_name]
           /\ measurement.rounding >= 0

\* C25: should_alert returns True exactly when the objective's status is
\* WARNING or CRITICAL, the status being OK for a burn rate under 0.5,
\* WARNING from 0.5 to under 1.0 and CRITICAL from 1.0; it returns False
\* for a name that is not an objective.
C25_AlertIffBudgetHalfBurnt ==
    slo.asked.called =>
        /\ \A slo_name \in SLONames :
               slo.asked.status[slo_name].status
                   = IF BurnAtLeast(slo_name, slo.current[slo_name], 1, 1)
                     THEN "CRITICAL"
                     ELSE IF BurnAtLeast(slo_name, slo.current[slo_name], 1, 2)
                     THEN "WARNING"
                     ELSE "OK"
        /\ slo.asked.slo_name \in SLONames
               => slo.asked.returned
                      = (slo.asked.status[slo.asked.slo_name].status
                             \in {"WARNING", "CRITICAL"})
        /\ slo.asked.slo_name \notin SLONames => ~slo.asked.returned

\* should_alert returned True for a latency just under the whole budget
\* (WARNING) while availability, at the whole budget, was CRITICAL.
C25_Witness ==
    /\ slo.asked.called
    /\ slo.asked.slo_name = "latency_p95"
    /\ slo.current["latency_p95"] = Measured(39999, 0)
    /\ slo.current["availability"] = Measured(99800, 1)
    /\ slo.asked.status["latency_p95"].status = "WARNING"
    /\ slo.asked.status["availability"].status = "CRITICAL"
    /\ slo.asked.returned

(***************************************************************************)
(* Properties of the update lock                                           *)
(***************************************************************************)
\* C26: an update_rates call that finds the lock held returns at once with
\* success False and 'Rate update already in progress', without going on to
\* deserialize or validate, and leaves the lock, the cache, current.json,
\* the version files and the engines' configurations as they were.
C26_HeldLockRefuses ==
    [][\A u \in Updaters :
          (/\ pc[u] = "check_lock"
           /\ pc'[u] # "check_lock"
           /\ CacheGet(cache, KEY_LOCK, FALSE))
              => /\ pc'[u] = "idle"
                 /\ result'[u].done
                 /\ ~result'[u].success
                 /\ result'[u].error = "Rate update already in progress"
                 /\ cache' = cache
                 /\ files' = files
                 /\ current_config' = current_config
                 /\ published' = published]_vars

\* A call was refused while the other updater, past validation, still holds
\* the lock.
C26_Witness ==
    \E u \in Updaters, v \in Updaters :
        /\ u # v
        /\ result[u].done
        /\ result[u].error = "Rate update already in progress"
        /\ pc[v] \notin {"idle", "check_lock", "set_lock", "validate"}
        /\ CacheGet(cache, KEY_LOCK, FALSE)

(***************************************************************************)
(* CircuitBreaker: the counters and the recovery boundary                  *)
(***************************************************************************)
\* C28: the failure count reads 0 whenever the breaker is OPEN.
C28_OpenCounterZero ==
    get_state(cache) = OPEN => get_failure_count(cache) = 0

\* C29: a call on an OPEN breaker made recovery_timeout seconds or more
\* after the transition to OPEN finds the breaker HALF_OPEN with success
\* count 0 and invokes the wrapped function.
C29_OpenAdmitsAtTimeout ==
    (Called /\ get_state(lastCall.pre) = OPEN
            /\ now - last_failure(lastCall.pre) >= recovery_timeout)
        => /\ lastCall.invoked
           /\ get_state(lastCall.mid) = HALF_OPEN
           /\ get_success_count(lastCall.mid) = 0

\* C30: a successful call on a CLOSED breaker leaves it CLOSED with failure
\* count 0, and a failing call opens a CLOSED breaker only as the last of
\* failure_threshold consecutive failing calls.
C30_OnlyConsecutiveFailuresOpen ==
    /\ (Called /\ lastCall.outcome = "returned" /\ get_state(lastCall.mid) = CLOSED)
          => /\ get_state(cache) = CLOSED
             /\ get_failure_count(cache) = 0
    /\ (Called /\ lastCall.outcome = "raised" /\ get_state(lastCall.mid) = CLOSED
               /\ get_state(cache) = OPEN)
          => run.streak = failure_threshold

\* A success on a CLOSED breaker one failure short of the threshold.
C30_Witness ==
    /\ Called /\ lastCall.outcome = "returned"
    /\ get_state(lastCall.mid) = CLOSED
    /\ get_failure_count(lastCall.mid) = failure_threshold - 1
    /\ get_failure_count(cache) = 0

(***************************************************************************)
(* CircuitBreaker under concurrent calls                                   *)
(***************************************************************************)
\* C27: no process writes a state over one it has not read: every state
\* entry written replaces the state its writer read, so that no transition
\* is overwritten by a call that read the state earlier and none is applied
\* twice.
C27_TransitionsNeitherLostNorDoubled ==
    race.transition.made => race.transition.from = race.transition.read

\* C31: an update_rates call that took the lock has deleted it when it
\* returns, whatever it returns; and a call is refused as already in
\* progress only while another call is between taking the lock and
\* returning.
C31_LockReleasedOnEveryExit ==
    /\ [][\A u \in Updaters :
              (pc[u] \in UpdateSection /\ pc'[u] = "idle")
                  => ~CacheGet(cache', KEY_LOCK, FALSE)]_vars
    /\ [](\A u \in Updaters :
              (result[u].done /\ result[u].error = "Rate update already in progress")
                  => \E v \in Updaters \ {u} : pc[v] \in UpdateSection)

\* A call has returned a failure of its own (not a refusal), nobody is
\* updating and the lock is gone; the other updater has returned as well.
C31_Witness ==
    \E u \in Updaters :
        /\ result[u].done
        /\ ~result[u].success
        /\ result[u].error \in {"Configuration integrity check failed",
                                "Failed to save new configuration"}
        /\ \A v \in Updaters : pc[v] = "idle"
        /\ started = MaxUpdates
        /\ ~CacheGet(cache, KEY_LOCK, FALSE)

\* C32: the lock deletion of a returning update_rates call never removes
\* the lock while another call is between taking the lock and returning.
C32_ReleasesOnlyOwnLock ==
    [][\A u \in Updaters :
          (pc[u] = "release" /\ pc'[u] = "idle")
              => ~\E v \in Updaters \ {u} :
                     /\ pc[v] \in UpdateSection
                     /\ CacheGet(cache, KEY_LOCK, FALSE)
                     /\ ~CacheGet(cache', KEY_LOCK, FALSE)]_vars

(***************************************************************************)
(* RateLimiter: concurrent calls, and refused calls                        *)
(***************************************************************************)
\* C33: of the is_allowed calls made on one identifier in the window that
\* ends now, whatever the interleaving of their reads and writes, at most
\* max_requests returned True.
C33_ConcurrentCallsWithinLimit ==
    \A i \in Identifiers : Allowed(SpanNow(i)) <= max_requests

\* C34: an is_allowed call that returns False leaves every cache entry, the
\* buckets of its identifier and of the others, as it was.
C34_RefusedCallRecordsNothing ==
    [][\A i \in Identifiers :
          (history'[i] = Append(history[i], [at |-> now, allowed |-> FALSE]))
              => cache' = cache]_vars

\* A call was refused at a later second than the calls that filled the
\* window, whose buckets are still stored.
C34_Witness ==
    \E i \in Identifiers :
        /\ Len(history[i]) = MaxCalls
        /\ ~history[i][MaxCalls].allowed
        /\ history[i][MaxCalls].at = now
        /\ history[i][1].at < now
        /\ Live(cache, RLKey(i))

(***************************************************************************)
(* Flags across restarts, and the shadow marks                             *)
(***************************************************************************)
\* C35: while the command's last change of a flag is an emergency disable
\* (enabled False, strategy OFF), a manager constructed after it holds the
\* flag with enabled False and is_enabled returns False on it for every
\* user, however long after the disable it was constructed.
C35_EmergencyDisableSurvivesRestart ==
    (mutation.made /\ ~mutation.flag.enabled /\ mutation.flag.strategy = OFF)
        => \A m \in Managers \ {"command"} :
               (Constructed(m) /\ m \notin mutation.running)
                   => /\ ~flags[m][mutation.flag_name].enabled
                      /\ \A user \in Users :
                             ~is_enabled(flags[m], cache, mutation.flag_name, user).result

\* C36: should_run_shadow(flag_name, user) is the user's own shadow bucket
\* compared with the flag's current shadow_percentage, whether or not
\* is_enabled was called for the user before and whatever the flag's
\* shadow_percentage was at that time.
C36_ShadowByCurrentBucketing ==
    Constructed("web")
        => \A f \in ShadowFlags \cap DOMAIN flags["web"], user \in Users :
               should_run_shadow(cache, f, user)
                   = (user_percentage[ToString(user) \o ":shadow:" \o f]
                          <= flags["web"][f].shadow_percentage)

(***************************************************************************)
(* Version records                                                         *)
(***************************************************************************)
\* C37: a version file that held a configuration when save_configuration
\* was called still exists, and whenever it holds a whole configuration it
\* holds the one it held before the call.
C37_VersionRecordsImmutable ==
    \A v \in Versions :
        (save.calls > 0 /\ save.before.versions[v].exists /\ save.before.versions[v].json)
            => /\ files.versions[v].exists
               /\ files.versions[v].json
                      => files.versions[v].text = save.before.versions[v].text

(***************************************************************************)
(* The canary counters                                                     *)
(***************************************************************************)
\* The calls made for a flag, in the order made.
CallsFor(flag_name) == SelectSeq(calc, LAMBDA made : made.flag_name = flag_name)

\* The calls of the metric's current window: the last call is less than the
\* TTL ago, and each of them was followed by the next within the TTL.
InWindow(flag_name) ==
    LET made == CallsFor(flag_name)
    IN  {n \in DOMAIN made :
            /\ now - made[Len(made)].at < CANARY_TTL
            /\ \A k \in n .. Len(made) - 1 : made[k + 1].at - made[k].at < CANARY_TTL}

\* C38: with calls in the metric's window, the stored total is their number,
\* the stored successes the number of successful ones, between 0 and the
\* total, and the rate successes/total x 100, between 0 and 100; with none,
\* the reported rate is 100.
C38_CanaryCounters ==
    \A f \in CanaryFlags :
        LET made == CallsFor(f)
            calls == InWindow(f)
            data == CacheGet(cache, CanaryKey(f), NoCanaryData)
        IN  IF calls = {}
            THEN get_canary_success_rate(cache, f) = FULL_RATE
            ELSE /\ Live(cache, CanaryKey(f))
                 /\ data.total = Cardinality(calls)
                 /\ data.successes = Cardinality({n \in calls : made[n].success})
                 /\ 0 <= data.successes /\ data.successes <= data.total
                 /\ data.success_rate = (data.successes * FULL_RATE) \div data.total
                 /\ 0 <= data.success_rate /\ data.success_rate <= FULL_RATE
                 /\ get_canary_success_rate(cache, f) = data.success_rate

\* Three calls in one window, one of them failed, after an earlier window
\* of the same flag expired.
C38_Witness ==
    \E f \in CanaryFlags :
        /\ Len(CallsFor(f)) > Cardinality(InWindow(f))
        /\ Cardinality(InWindow(f)) = 3
        /\ CacheGet(cache, CanaryKey(f), NoCanaryData).successes = 2

(***************************************************************************)
(* The medical tax credit                                                  *)
(***************************************************************************)
\* The tiered credit under a configuration's amounts
TieredCredit(config, members) ==
    IF members <= 0 THEN 0
    ELSE config.medical_credit_main
           + (IF members > 1 THEN config.medical_credit_first_dependent ELSE 0)
           + (IF members > 2
              THEN (members - 2) * config.medical_credit_additional_dependent
              ELSE 0)

\* C39: a calculate_medical_tax_credit call made while the rate engine has a
\* current configuration returns the tiered credit under that configuration's
\* medical credit amounts.
C39_MedicalCreditFromCurrentConfig ==
    (calc # <<>> /\ calc[1].fn = "calculate_medical_tax_credit" /\ calc[1].current.loaded)
        => calc[1].outcome = TieredCredit(calc[1].current.config, calc[1].members)

(***************************************************************************)
(* The business rules of a configuration                                   *)
(***************************************************************************)
\* Brackets ascending and non-overlapping: no bracket starts below the end
\* of the one before it or follows an open-ended one, and a bounded bracket
\* ends above its start.
BracketsAscending(brackets) ==
    /\ \A n \in DOMAIN brackets :
           n > 1 => /\ brackets[n - 1].max_income # None
                    /\ brackets[n].min_income >= brackets[n - 1].max_income
    /\ \A n \in DOMAIN brackets :
           brackets[n].max_income # None
               => brackets[n].max_income > brackets[n].min_income

RulesHold(config) ==
    /\ BracketsAscending(config.tax_brackets)
    /\ \A n \in DOMAIN config.tax_brackets :
           0 <= config.tax_brackets[n].rate /\ config.tax_brackets[n].rate <= MAX_TAX_RATE
    /\ \A n \in DOMAIN config.tax_rebates : config.tax_rebates[n].amount >= 0
    /\ 0 <= config.uif_rate /\ config.uif_rate <= MAX_UIF_RATE

\* C40: _validate_configuration answers valid for a configuration if and
\* only if its brackets are ascending and non-overlapping, its bracket rates
\* are between 0 and 0.5, its rebates are not negative and its UIF rate is
\* between 0 and 0.05.
C40_ValidIffRulesHold ==
    (calc # <<>> /\ calc[1].fn = "_validate_configuration")
        => (calc[1].outcome.valid <=> RulesHold(calc[1].config))

====
